---------------------------- MODULE Spec2Model ----------------------------
(***************************************************************************)
(* Software rasterizer of compgraphic-lab9.  The repository holds three    *)
(* versions of the same viewer (class Lighting3DViewer):                   *)
(*   "zbuf"  : src/script.js lines 1-380    (depth buffer, no culling)     *)
(*   "phong" : src/script.js lines 381-883  (culling, perspective, Phong)  *)
(*   "cull"  : src/unnamed/part_000         (culling, fixed view vector)   *)
(* The variable `version` says which of them is running.                   *)
(*                                                                         *)
(* Numbers: a JavaScript number is kept in fixed point, as an integer      *)
(* count of 1/Unit; products and quotients round to the nearest 1/Unit.    *)
(* Screen coordinates are kept in half pixels, so that canvas.width / 2    *)
(* is exact for every width.  Rotation angles are whole multiples of 90    *)
(* degrees, whose sine and cosine are exact.                               *)
(***************************************************************************)
EXTENDS Integers, Sequences, FiniteSets, TLC

\* canvas.width and canvas.height (set by the page, which is not in src/)
Width == 4
Height == 4
\* 1/Unit is the resolution of the fixed-point numbers
Unit == 1000
\* at most MaxEvents parameter changes happen in one run
MaxEvents == 2

VERSIONS == {"zbuf", "phong", "cull"}

---------------------------------------------------------------------------
(* Fixed-point arithmetic *)

\* b, once the value of a is computed: JavaScript evaluates the arguments of
\* a call before the call
After(a, b) == IF a = a THEN b ELSE b

Abs(n) == IF n < 0 THEN -n ELSE n

\* n / d rounded to the nearest integer (d # 0)
RoundDiv(n, d) ==
    IF d < 0 THEN (2 * (-n) + (-d)) \div (2 * (-d)) ELSE (2 * n + d) \div (2 * d)

\* a two-decimal literal of the source, e.g. 0.87 is Dec(87)
Dec(n) == RoundDiv(n * Unit, 100)

\* n / d as a floating-point division gives it: rounded, but a quotient that
\* is not zero never rounds to zero, so the sign of a result is the sign of
\* the exact value
Fix(n, d) ==
    IF n = 0 THEN 0
    ELSE IF RoundDiv(n, d) = 0 THEN (IF (n < 0) = (d < 0) THEN 1 ELSE -1)
    ELSE RoundDiv(n, d)

Mul(a, b) == Fix(a * b, Unit)
Div(a, b) == Fix(a * Unit, b)

Min2(a, b) == IF a < b THEN a ELSE b
Max2(a, b) == IF a > b THEN a ELSE b
Min3(a, b, c) == Min2(a, Min2(b, c))
Max3(a, b, c) == Max2(a, Max2(b, c))

\* r is at most the square root of n (46340 is the largest integer whose
\* square fits the integers of the model)
AtMostRoot(r, n) == r <= 46340 /\ r * r <= n

\* the largest base + k * step, k in 0..15, that is at most the square root
SqrtDigit(n, base, step) ==
    base + step * (CHOOSE k \in 0..15 :
                      /\ AtMostRoot(base + k * step, n)
                      /\ (k = 15 \/ ~AtMostRoot(base + (k + 1) * step, n)))

\* Math.sqrt on a sum of squares of fixed-point numbers, rounded down
Sqrt(n) ==
    After(n, SqrtDigit(n, SqrtDigit(n, SqrtDigit(n, SqrtDigit(n, 0, 4096), 256), 16), 1))

\* a JavaScript array or object, held by value: its elements are computed
\* once, when it is built
Array(f) == IF f = << >> THEN << >> ELSE f

\* Math.floor and Math.ceil of a half-pixel coordinate, in whole pixels
FloorPx(h) == h \div 2
CeilPx(h) == (h + 1) \div 2

---------------------------------------------------------------------------
(* class Point3D *)

Point3D(x, y, z) == [x |-> x, y |-> y, z |-> z]

subtract(a, b) == Point3D(a.x - b.x, a.y - b.y, a.z - b.z)
add(a, b) == Point3D(a.x + b.x, a.y + b.y, a.z + b.z)
multiply(a, s) == Point3D(Mul(a.x, s), Mul(a.y, s), Mul(a.z, s))
cross(a, b) ==
    Point3D(Mul(a.y, b.z) - Mul(a.z, b.y),
            Mul(a.z, b.x) - Mul(a.x, b.z),
            Mul(a.x, b.y) - Mul(a.y, b.x))
dot(a, b) == Mul(a.x, b.x) + Mul(a.y, b.y) + Mul(a.z, b.z)
length(a) == Sqrt(a.x * a.x + a.y * a.y + a.z * a.z)

\* a normalize that answers a vector of length 0 with the unit vector (0, 0, 1)
DivideByOrUnit(a, len) ==
    IF len > 0 THEN Point3D(Div(a.x, len), Div(a.y, len), Div(a.z, len))
    ELSE Point3D(0, 0, Unit)

\* return len > 0 ? new Point3D(this.x/len, this.y/len, this.z/len) : this
DivideBy(a, len) ==
    IF len > 0 THEN Point3D(Div(a.x, len), Div(a.y, len), Div(a.z, len)) ELSE a

normalize(a) == After(a, DivideBy(a, length(a)))

Zero3 == Point3D(0, 0, 0)
UV(u, v) == [u |-> u, v |-> v]
RGB(r, g, b) == [r |-> r, g |-> g, b |-> b]

---------------------------------------------------------------------------
(* Meshes: class Vertex, class Face, class Model3D.  Sequences are 1-based, *)
(* so the vertex of index idx is vertices[idx + 1].                         *)

\* new Vertex(position, normal, texCoord) of "zbuf" (the other versions'
\* Vertex takes the position only; their faces carry the texture coordinates)
Vertex(position, texCoord) ==
    [position |-> position, normal |-> Zero3, texCoord |-> texCoord]

objectColor == RGB(Dec(80), Dec(60), Dec(40))

\* new Face(vertexIndices) of "zbuf"
FaceZ(vertexIndices) ==
    [vertexIndices |-> vertexIndices, color |-> objectColor, normal |-> Zero3]

\* new Face(f.indices, f.texCoords || []) of "phong" and "cull"
Face(vertexIndices, texCoords) ==
    [vertexIndices |-> vertexIndices, texCoords |-> texCoords]

\* Face.calculateNormal of "zbuf", applied to the vertex list: the normal it
\* returns, and the face with its normal field assigned
\* this.normal = ...; return this.normal
AssignNormal(face, n) == [normal |-> n, face |-> [face EXCEPT !.normal = n]]

calculateNormal(face, vertices) ==
    IF Len(face.vertexIndices) < 3
    THEN [normal |-> Point3D(0, 0, Unit), face |-> face]
    ELSE LET v0 == vertices[face.vertexIndices[1] + 1].position
             v1 == vertices[face.vertexIndices[2] + 1].position
             v2 == vertices[face.vertexIndices[3] + 1].position
         IN  AssignNormal(face, normalize(cross(subtract(v1, v0), subtract(v2, v0))))

\* how many times the index idx is in the list
Occurrences(indices, idx) == Cardinality({k \in DOMAIN indices : indices[k] = idx})

\* what this.faces.forEach(...) adds to one coordinate of the normal of the
\* vertex idx over the faces lo..hi, results[k].normal being the normal
\* computed for face k
RECURSIVE SumNormals(_, _, _, _, _, _)
SumNormals(results, faces, idx, axis, lo, hi) ==
    CASE lo > hi -> 0
      [] lo = hi -> results[lo].normal[axis] * Occurrences(faces[lo].vertexIndices, idx)
      [] OTHER -> SumNormals(results, faces, idx, axis, lo, (lo + hi) \div 2)
                  + SumNormals(results, faces, idx, axis, (lo + hi) \div 2 + 1, hi)

\* face.vertexIndices.forEach(idx => vertices[idx].normal = ... .add(normal)),
\* for every face
AddNormals(vertices, faces, results) ==
    Array([i \in DOMAIN vertices |->
        [vertices[i] EXCEPT
            !.normal = add(@, Point3D(SumNormals(results, faces, i - 1, "x", 1, Len(faces)),
                                      SumNormals(results, faces, i - 1, "y", 1, Len(faces)),
                                      SumNormals(results, faces, i - 1, "z", 1, Len(faces))))]])

\* this.vertices.forEach(v => v.normal = v.normal.normalize())
Normalized(vertices) ==
    Array([i \in DOMAIN vertices |-> [vertices[i] EXCEPT !.normal = normalize(@)]])

\* a first pass that leaves the vertex normals as they are
ZeroedNever(vertices) == Array(vertices)

\* this.vertices.forEach(v => v.normal = new Point3D(0, 0, 0))
Zeroed(vertices) ==
    Array([i \in DOMAIN vertices |-> [vertices[i] EXCEPT !.normal = Zero3]])

\* the three passes of calculateVertexNormals and calculateNormals over the
\* vertices, results[k].normal being the normal computed for face k
PassNormalize(summed) == After(summed, Normalized(summed))
PassAdd(zeroed, faces, results) ==
    After(<< zeroed, results >>, PassNormalize(AddNormals(zeroed, faces, results)))
VertexNormals(vertices, faces, results) == PassAdd(Zeroed(vertices), faces, results)

\* Model3D.calculateVertexNormals ("zbuf")
calculateVertexNormals(vertices, faces) ==
    [vertices |->
        VertexNormals(vertices, faces,
            Array([k \in DOMAIN faces |-> calculateNormal(faces[k], vertices)])),
     faces |-> Array([k \in DOMAIN faces |-> calculateNormal(faces[k], vertices).face])]

\* the normal calculateNormals computes for a face
FaceNormal(vertices, face) ==
    normalize(cross(subtract(vertices[face.vertexIndices[2] + 1].position,
                             vertices[face.vertexIndices[1] + 1].position),
                    subtract(vertices[face.vertexIndices[3] + 1].position,
                             vertices[face.vertexIndices[1] + 1].position)))

\* Model3D.calculateNormals ("phong" and "cull")
calculateNormals(vertices, faces) ==
    [vertices |->
        VertexNormals(vertices, faces,
            Array([k \in DOMAIN faces |-> [normal |-> FaceNormal(vertices, faces[k])]])),
     faces |-> faces]

\* new Model3D(vertices, faces)
Model3D(v, vertices, faces) ==
    After(vertices,
          IF v = "zbuf"
          THEN calculateVertexNormals(vertices,
                   Array([k \in DOMAIN faces |-> FaceZ(faces[k].indices)]))
          ELSE calculateNormals(vertices,
                   Array([k \in DOMAIN faces |->
                            Face(faces[k].indices, faces[k].texCoords)])))

P(x, y, z) == Point3D(x * Unit, y * Unit, z * Unit)
T(u, v) == UV(Dec(u), Dec(v))
F(indices, texCoords) == [indices |-> indices, texCoords |-> texCoords]

\* texture coordinates of the cube's vertices in "zbuf"
cubeTexCoord == << T(0, 100), T(100, 100), T(100, 0), T(0, 0),
                   T(0, 100), T(100, 100), T(100, 0), T(0, 0) >>
cubePositions == << P(-1, -1, -1), P(1, -1, -1), P(1, 1, -1), P(-1, 1, -1),
                    P(-1, -1, 1), P(1, -1, 1), P(1, 1, 1), P(-1, 1, 1) >>

cubeVertices(v) ==
    Array([i \in 1..8 |-> Vertex(cubePositions[i],
                                 IF v = "zbuf" THEN cubeTexCoord[i] ELSE T(0, 0))])

cubeFaces ==
    << F(<<0, 3, 2, 1>>, << T(0, 100), T(0, 0), T(100, 0), T(100, 100) >>),
       F(<<4, 5, 6, 7>>, << T(0, 100), T(100, 100), T(100, 0), T(0, 0) >>),
       F(<<0, 1, 5, 4>>, << T(0, 100), T(100, 100), T(100, 0), T(0, 0) >>),
       F(<<2, 3, 7, 6>>, << T(100, 100), T(0, 100), T(0, 0), T(100, 0) >>),
       F(<<0, 4, 7, 3>>, << T(0, 100), T(100, 100), T(100, 0), T(0, 0) >>),
       F(<<1, 2, 6, 5>>, << T(0, 100), T(100, 100), T(100, 0), T(0, 0) >>) >>

tetraVertices(v) ==
    << Vertex(Point3D(0, Unit, 0), IF v = "zbuf" THEN T(50, 100) ELSE T(0, 0)),
       Vertex(Point3D(Dec(87), -Dec(50), 0), IF v = "zbuf" THEN T(100, 0) ELSE T(0, 0)),
       Vertex(Point3D(-Dec(87), -Dec(50), 0), T(0, 0)),
       Vertex(Point3D(0, 0, Dec(141)), IF v = "zbuf" THEN T(50, 50) ELSE T(0, 0)) >>

tetraFaces ==
    << F(<<0, 2, 1>>, << T(50, 0), T(0, 100), T(100, 100) >>),
       F(<<0, 1, 3>>, << T(50, 0), T(0, 100), T(100, 100) >>),
       F(<<0, 3, 2>>, << T(50, 0), T(100, 100), T(0, 100) >>),
       F(<<1, 2, 3>>, << T(0, 0), T(100, 0), T(50, 100) >>) >>

octaVertices ==
    << Vertex(P(0, 1, 0), T(0, 0)), Vertex(P(1, 0, 0), T(0, 0)),
       Vertex(P(0, 0, 1), T(0, 0)), Vertex(P(-1, 0, 0), T(0, 0)),
       Vertex(P(0, 0, -1), T(0, 0)), Vertex(P(0, -1, 0), T(0, 0)) >>

octaFaces ==
    << F(<<0, 1, 2>>, << T(50, 0), T(100, 50), T(50, 100) >>),
       F(<<0, 2, 3>>, << T(50, 0), T(50, 100), T(0, 50) >>),
       F(<<0, 3, 4>>, << T(50, 0), T(0, 50), T(50, 100) >>),
       F(<<0, 4, 1>>, << T(50, 0), T(50, 100), T(100, 50) >>),
       F(<<5, 2, 1>>, << T(50, 100), T(50, 0), T(100, 50) >>),
       F(<<5, 3, 2>>, << T(50, 100), T(0, 50), T(50, 0) >>),
       F(<<5, 4, 3>>, << T(50, 100), T(50, 0), T(0, 50) >>),
       F(<<5, 1, 4>>, << T(50, 100), T(100, 50), T(50, 0) >>) >>

\* the sphere of "zbuf"
slices == 12
stacks == 8

\* Math.sin and Math.cos at i * PI / 8 and at j * 2 * PI / 12, in thousandths
Milli(n) == RoundDiv(n * Unit, 1000)
sinPhiTable == << 0, 383, 707, 924, 1000, 924, 707, 383, 0 >>
cosPhiTable == << 1000, 924, 707, 383, 0, -383, -707, -924, -1000 >>
cosThetaTable == << 1000, 866, 500, 0, -500, -866, -1000, -866, -500, 0, 500, 866, 1000 >>
sinThetaTable == << 0, 500, 866, 1000, 866, 500, 0, -500, -866, -1000, -866, -500, 0 >>

sphereVertices ==
    [n \in 1..((stacks + 1) * (slices + 1)) |->
        LET i == (n - 1) \div (slices + 1)
            j == (n - 1) % (slices + 1)
            sinPhi == Milli(sinPhiTable[i + 1])
            cosPhi == Milli(cosPhiTable[i + 1])
        IN  Vertex(Point3D(Mul(sinPhi, Milli(cosThetaTable[j + 1])), cosPhi,
                           Mul(sinPhi, Milli(sinThetaTable[j + 1]))),
                   UV(Div(j * Unit, slices * Unit), Div(i * Unit, stacks * Unit)))]

\* sphere faces whose last corner is taken one row too far down
sphereFacesRowBelow ==
    [n \in 1..(stacks * slices) |->
        LET i == (n - 1) \div slices
            j == (n - 1) % slices
            first == i * (slices + 1) + j
        IN  F(<<first, first + 1, first + slices + 2, first + 2 * slices + 2>>, << >>)]

\* sphereFaces.push([first, first + 1, first + slices + 2, first + slices + 1])
sphereFaces ==
    [n \in 1..(stacks * slices) |->
        LET i == (n - 1) \div slices
            j == (n - 1) % slices
            first == i * (slices + 1) + j
        IN  F(<<first, first + 1, first + slices + 2, first + slices + 1>>, << >>)]

MODELS(v) ==
    IF v = "zbuf" THEN {"cube", "sphere", "tetrahedron", "octahedron"}
    ELSE {"cube", "tetrahedron", "octahedron"}

\* Lighting3DViewer.createModels
createModels(v) ==
    [m \in MODELS(v) |->
        CASE m = "cube" -> Model3D(v, cubeVertices(v), cubeFaces)
          [] m = "sphere" -> Model3D(v, sphereVertices, sphereFaces)
          [] m = "tetrahedron" -> Model3D(v, tetraVertices(v), tetraFaces)
          [] m = "octahedron" -> Model3D(v, octaVertices, octaFaces)]

---------------------------------------------------------------------------
(* class Lighting3DViewer: the state *)

VARIABLES
    version,              \* which of the three versions runs
    models,               \* this.models
    currentModel, shadingMode, enableTexturing, textureType,
    lightPosition, ambientIntensity, diffuseIntensity,
    rotation,             \* this.rotation, each angle as its count of degrees
    scale, translation,
    zBuffer,              \* this.zBuffer: index -> depth, for the assigned indices
    surface,              \* the canvas: pixel -> the rgb() last filled there
    pc,                   \* "construct", "idle", or "render" while render() runs
    faceIdx,              \* render: how many faces model.faces.forEach has visited
    queue,                \* render: drawTriangle calls of the face being visited
    transformedVertices, screenVertices, vertexColors,   \* render's locals
    pending,              \* callbacks requestAnimationFrame holds
    threw,                \* render ended in a TypeError
    events,               \* parameter changes so far
    last,                 \* history: what the step just taken did
    frame                 \* history: what the render pass under way has done

params == << currentModel, shadingMode, enableTexturing, textureType, lightPosition,
             ambientIntensity, diffuseIntensity, rotation, scale, translation >>
locals == << faceIdx, queue, transformedVertices, screenVertices, vertexColors >>
vars == << version, models, params, zBuffer, surface, pc, locals, pending, threw,
           events, last, frame >>

Pixels == (0..(Width - 1)) \X (0..(Height - 1))

\* this.ctx.fillStyle = '#1a1a2e'
background == RGB(26 * Unit, 26 * Unit, 46 * Unit)

\* Number.MAX_VALUE
MAX_VALUE == 2147483647

\* fields of "phong"
ambient == Dec(10)
specularColor == RGB(Unit, Unit, Unit)
specularIntensity == Dec(80)
shininess == 32
cameraDistance == 5 * Unit
perspective == 500 * Unit

---------------------------------------------------------------------------
(* rotatePoint, lighting, textures *)

CosDeg(d) == CASE d % 360 = 0 -> Unit [] d % 360 = 90 -> 0
               [] d % 360 = 180 -> -Unit [] d % 360 = 270 -> 0
SinDeg(d) == CASE d % 360 = 0 -> 0 [] d % 360 = 90 -> Unit
               [] d % 360 = 180 -> 0 [] d % 360 = 270 -> -Unit

\* Lighting3DViewer.rotatePoint
\* if (rx !== 0) { ... [y, z] = [y * cosX - z * sinX, y * sinX + z * cosX]; }
RotateX(p, rx) ==
    IF p = p /\ rx # 0
    THEN Point3D(p.x, Mul(p.y, CosDeg(rx)) - Mul(p.z, SinDeg(rx)),
                 Mul(p.y, SinDeg(rx)) + Mul(p.z, CosDeg(rx)))
    ELSE p

\* if (ry !== 0) { ... [x, z] = [x * cosY + z * sinY, -x * sinY + z * cosY]; }
RotateY(p, ry) ==
    IF p = p /\ ry # 0
    THEN Point3D(Mul(p.x, CosDeg(ry)) + Mul(p.z, SinDeg(ry)), p.y,
                 Mul(-p.x, SinDeg(ry)) + Mul(p.z, CosDeg(ry)))
    ELSE p

\* if (rz !== 0) { ... [x, y] = [x * cosZ - y * sinZ, x * sinZ + y * cosZ]; }
RotateZ(p, rz) ==
    IF p = p /\ rz # 0
    THEN Point3D(Mul(p.x, CosDeg(rz)) - Mul(p.y, SinDeg(rz)),
                 Mul(p.x, SinDeg(rz)) + Mul(p.y, CosDeg(rz)), p.z)
    ELSE p

\* a rotatePoint that turns about Z first and about X last
rotatePointZYX(point, rx, ry, rz) == RotateX(RotateY(RotateZ(point, rz), ry), rx)

rotatePoint(point, rx, ry, rz) == RotateZ(RotateY(RotateX(point, rx), ry), rz)

\* a calculateLighting without the cap of Math.min at 1.0
LightingUncapped(diffuse) ==
    After(diffuse, ambientIntensity + Mul(diffuseIntensity, diffuse))

\* Lighting3DViewer.calculateLighting ("zbuf")
\* return Math.min(1, this.ambientIntensity + this.diffuseIntensity * diffuse)
Lighting(diffuse) ==
    After(diffuse, Min2(ambientIntensity + Mul(diffuseIntensity, diffuse), Unit))

\* const diffuse = Math.max(0, normNormal.dot(lightDir))
Diffuse(normNormal, lightDir) ==
    After(normNormal, After(lightDir, Max2(dot(normNormal, lightDir), 0)))

calculateLighting(normal) ==
    Lighting(Diffuse(normalize(normal), normalize(lightPosition)))

\* Lighting3DViewer.calculateDiffuse ("cull")
calculateDiffuse(normal) == Diffuse(normalize(normal), normalize(lightPosition))

\* Math.pow(x, n) for a whole n, by repeated squaring
RECURSIVE Pow(_, _)
Pow(x, n) ==
    CASE After(x, n = 0) -> Unit
      [] n = 1 -> x
      [] n % 2 = 0 -> Pow(Mul(x, x), n \div 2)
      [] OTHER -> Mul(x, Pow(Mul(x, x), n \div 2))

\* Lighting3DViewer.calculatePhong ("phong")
\* const reflectDir = lightDir.subtract(normNormal.multiply(2 * ...)).normalize()
reflectDir(lightDir, normNormal) ==
    normalize(subtract(lightDir, multiply(normNormal, 2 * dot(lightDir, normNormal))))

\* const specular = Math.pow(specAngle, this.shininess)
Specular(reflect, viewDir) ==
    After(reflect, Mul(specularIntensity, Pow(Max2(dot(reflect, viewDir), 0), shininess)))

\* calculatePhong, from normNormal, lightDir and viewDir on
PhongTerms(normNormal, lightDir, viewDir) ==
    After(<< normNormal, lightDir, viewDir >>,
          [ambient |-> ambient,
           diffuse |-> Max2(dot(normNormal, lightDir), 0),
           specular |-> Specular(reflectDir(lightDir, normNormal), viewDir)])

calculatePhong(normal, viewDirection) ==
    PhongTerms(normalize(normal), normalize(lightPosition), normalize(viewDirection))

\* Math.floor of a fixed-point number, as a whole number
Floor(a) == a \div Unit

\* the % of JavaScript: the remainder has the sign of the dividend
JsRem(a, n) == IF a >= 0 THEN a % n ELSE -((-a) % n)

\* a getTextureColor that shades each cell of the pattern by its number
getTextureColorCellShade(u, v) ==
    RGB(Floor(u * 8) * (Unit \div 8), Floor(v * 8) * (Unit \div 8), 0)

\* a getTextureColor that samples every texture type as the gradient
getTextureColorAsGradient(u, v) == RGB(u, v, Mul(Unit - u, Unit - v))

\* Lighting3DViewer.getTextureColor
getTextureColor(u, v) ==
    IF version = "zbuf"
    THEN CASE textureType = "checker" ->
                 IF JsRem(Floor(u * 4), 2) = JsRem(Floor(v * 4), 2)
                 THEN RGB(Unit, 0, 0) ELSE RGB(0, 0, Unit)
           [] textureType = "gradient" ->
                 RGB(u, v, Mul(Unit - u, Unit - v))
           [] textureType = "stripes" ->
                 IF JsRem(Floor(u * 8), 2) = 0
                 THEN RGB(Unit, Unit, 0) ELSE RGB(0, Unit, Unit)
           [] OTHER -> RGB(Unit, Unit, Unit)
    ELSE IF textureType = "checker"
    THEN IF JsRem(Floor(u * 8), 2) = JsRem(Floor(v * 8), 2)
         THEN RGB(Unit, Unit, Unit) ELSE RGB(Dec(30), Dec(30), Dec(30))
    ELSE IF textureType = "gradient" /\ version = "phong"
    THEN RGB(u, v, Mul(Unit - u, Unit - v))
    ELSE RGB(Unit, Unit, Unit)

---------------------------------------------------------------------------
(* drawTriangle.  A call is [i |-> the three vertex indices, texCoord |->   *)
(* the three texture coordinates]; v1, v2, v3 and screenV1, screenV2,       *)
(* screenV3 are the entries of render's lists at those indices.  The loop   *)
(* carries st = [surface, zBuffer, tv, writes]: tv is transformedVertices,  *)
(* whose colour objects "zbuf" shares with the pixel colour in flat mode.   *)

\* screenV1, screenV2, screenV3 ("zbuf" passes the transformed vertices)
ScreenV(tv, c, k) ==
    IF version = "zbuf" THEN tv[c.i[k] + 1] ELSE screenVertices[c.i[k] + 1]

\* the bounding box clipped to canvas.width and canvas.height instead of
\* canvas.width - 1 and canvas.height - 1
BoundingBoxToSize(s1, s2, s3) ==
    [minX |-> Max2(0, FloorPx(Min3(s1.x, s2.x, s3.x))),
     maxX |-> Min2(Width, CeilPx(Max3(s1.x, s2.x, s3.x))),
     minY |-> Max2(0, FloorPx(Min3(s1.y, s2.y, s3.y))),
     maxY |-> Min2(Height, CeilPx(Max3(s1.y, s2.y, s3.y)))]

\* minX, maxX, minY, maxY: the bounding box clipped to the canvas
BoundingBox(s1, s2, s3) ==
    [minX |-> Max2(0, FloorPx(Min3(s1.x, s2.x, s3.x))),
     maxX |-> Min2(Width - 1, CeilPx(Max3(s1.x, s2.x, s3.x))),
     minY |-> Max2(0, FloorPx(Min3(s1.y, s2.y, s3.y))),
     maxY |-> Min2(Height - 1, CeilPx(Max3(s1.y, s2.y, s3.y)))]

\* const denom = ..., in half pixels squared
Denom(s1, s2, s3) ==
    (s2.y - s3.y) * (s1.x - s3.x) + (s3.x - s2.x) * (s1.y - s3.y)

\* Math.abs(denom) < 0.0001: a quarter of a whole number is below 0.0001
\* only when the number is 0
Degenerate(d) == Abs(d) = 0

\* lambda1, lambda2, lambda3 at the pixel (x, y)
\* const lambda3 = 1 - lambda1 - lambda2
Lambda3(l1, l2) == << l1, l2, Unit - l1 - l2 >>

LambdaOver(denom, s1, s2, s3, x, y) ==
    Lambda3(Fix(((s2.y - s3.y) * (2 * x - s3.x)
                 + (s3.x - s2.x) * (2 * y - s3.y)) * Unit, denom),
            Fix(((s3.y - s1.y) * (2 * x - s3.x)
                 + (s1.x - s3.x) * (2 * y - s3.y)) * Unit, denom))

Lambda(s1, s2, s3, x, y) == LambdaOver(Denom(s1, s2, s3), s1, s2, s3, x, y)

\* if (lambda1 >= 0 && lambda2 >= 0 && lambda3 >= 0)
Inside(l) == l[1] >= 0 /\ l[2] >= 0 /\ l[3] >= 0

\* lambda1 * a1 + lambda2 * a2 + lambda3 * a3
Interpolate(l, a1, a2, a3) == Mul(l[1], a1) + Mul(l[2], a2) + Mul(l[3], a3)

\* const z = ... ("zbuf" and "cull"; "phong" computes no depth)
Depth(s1, s2, s3, l) == Interpolate(l, s1.z, s2.z, s3.z)

\* a depth test of "zbuf" that lets depths of any sign pass
DepthTestAnySign(z, zb, bufferIndex) ==
    CASE version = "zbuf" -> bufferIndex \in DOMAIN zb /\ z < zb[bufferIndex]
      [] version = "cull" -> z > -10 * Unit
      [] version = "phong" -> TRUE

\* the test that guards the pixel write
\* if (z < this.zBuffer[bufferIndex] && z > 0)
DepthTest(z, zb, bufferIndex) ==
    CASE version = "zbuf" ->
            /\ bufferIndex \in DOMAIN zb
            /\ z < zb[bufferIndex]
            /\ z > 0
      [] version = "cull" -> z > -10 * Unit
      [] version = "phong" -> TRUE

\* this.zBuffer[bufferIndex] = z
StoreDepth(z, zb, bufferIndex) ==
    IF version = "zbuf"
    THEN Array([i \in DOMAIN zb \cup {bufferIndex} |->
                  IF i = bufferIndex THEN z ELSE zb[i]])
    ELSE zb

Tint(color, k) == After(k, RGB(Mul(color.r, k), Mul(color.g, k), Mul(color.b, k)))

\* lambda1 * a1 + ... on each channel of three colours
InterpolateColor(l, c1, c2, c3) ==
    RGB(Interpolate(l, c1.r, c2.r, c3.r), Interpolate(l, c1.g, c2.g, c3.g),
        Interpolate(l, c1.b, c2.b, c3.b))

\* lambda1 * a1 + ... on each coordinate of three points
InterpolatePoint(l, p1, p2, p3) ==
    Point3D(Interpolate(l, p1.x, p2.x, p3.x), Interpolate(l, p1.y, p2.y, p3.y),
            Interpolate(l, p1.z, p2.z, p3.z))

\* color = { r: phong.ambient + phong.diffuse * this.objectColor.r + ... }
PhongColor(phong) ==
    After(phong,
          RGB(phong.ambient + Mul(phong.diffuse, objectColor.r)
                 + Mul(phong.specular, specularColor.r),
              phong.ambient + Mul(phong.diffuse, objectColor.g)
                 + Mul(phong.specular, specularColor.g),
              phong.ambient + Mul(phong.diffuse, objectColor.b)
                 + Mul(phong.specular, specularColor.b)))

\* the else branch of "phong": lighting from the interpolated normal and position
PhongPixel(l, v1, v2, v3) ==
    PhongColor(calculatePhong(
        normalize(InterpolatePoint(l, v1.normal, v2.normal, v3.normal)),
        subtract(Point3D(0, 0, cameraDistance),
                 InterpolatePoint(l, v1.position, v2.position, v3.position))))

\* the colour of the pixel before texturing, from v1, v2, v3
Lit(l, v1, v2, v3, c1, c2, c3) ==
    IF version = "zbuf"
    THEN CASE shadingMode = "flat" -> v1.color
           [] shadingMode = "gouraud" -> InterpolateColor(l, v1.color, v2.color, v3.color)
           [] OTHER ->
                Tint(objectColor,
                     calculateLighting(InterpolatePoint(l, v1.normal, v2.normal, v3.normal)))
    ELSE IF shadingMode = "gouraud" THEN InterpolateColor(l, c1, c2, c3)
    ELSE IF version = "cull"
    THEN Tint(objectColor,
              calculateDiffuse(InterpolatePoint(l, v1.normal, v2.normal, v3.normal)))
    ELSE PhongPixel(l, v1, v2, v3)

\* v.color of "phong" and "cull": the vertex colour in gouraud mode, else null
ColorOf(idx) ==
    IF version # "zbuf" /\ shadingMode = "gouraud" THEN vertexColors[idx + 1]
    ELSE RGB(0, 0, 0)

\* the colour of the pixel before texturing
LitColor(tv, c, l) ==
    Lit(l, tv[c.i[1] + 1], tv[c.i[2] + 1], tv[c.i[3] + 1],
        ColorOf(c.i[1]), ColorOf(c.i[2]), ColorOf(c.i[3]))

\* if (this.enableTexturing) { ... color.r *= texColor.r; ... }
Modulate(color, texColor) ==
    After(texColor, RGB(Mul(color.r, texColor.r), Mul(color.g, texColor.g),
                        Mul(color.b, texColor.b)))

Textured(color, c, l) ==
    IF enableTexturing
    THEN Modulate(color,
            getTextureColor(
                Interpolate(l, c.texCoord[1].u, c.texCoord[2].u, c.texCoord[3].u),
                Interpolate(l, c.texCoord[1].v, c.texCoord[2].v, c.texCoord[3].v)))
    ELSE color

\* color.r = Math.min(Math.max(color.r, 0), 1) ... ("phong" only)
Clamped(color) ==
    IF version = "phong"
    THEN RGB(Min2(Max2(color.r, 0), Unit), Min2(Max2(color.g, 0), Unit),
             Min2(Max2(color.b, 0), Unit))
    ELSE color

\* the arguments of rgb(...) in this.ctx.fillStyle
FillStyle(color) ==
    IF version = "zbuf"
    THEN RGB(color.r * 255, color.g * 255, color.b * 255)
    ELSE RGB(Floor(color.r * 255) * Unit, Floor(color.g * 255) * Unit,
             Floor(color.b * 255) * Unit)

\* the pixel (x, y) is filled with color and its depth stored
Fill(st, c, x, y, z, color) ==
    After(color,
    [surface |-> [st.surface EXCEPT ![<<x, y>>] = FillStyle(color)],
     zBuffer |-> StoreDepth(z, st.zBuffer, y * Width + x),
     tv |-> IF version = "zbuf" /\ shadingMode = "flat"
            THEN [st.tv EXCEPT ![c.i[1] + 1].color = color]
            ELSE st.tv,
     writes |-> Append(st.writes, <<x, y>>)])

\* the body of the two loops, from the lit colour on
Paint(st, c, x, y, z, l, lit) ==
    After(lit, Fill(st, c, x, y, z, Clamped(Textured(lit, c, l))))

\* the body of the two loops, from the barycentric weights l on
ShadeAt(st, c, x, y, d, l, z) ==
    IF Degenerate(d) THEN st
    ELSE IF ~Inside(l) THEN st
    ELSE IF ~DepthTest(z, st.zBuffer, y * Width + x) THEN st
    ELSE Paint(st, c, x, y, z, l, LitColor(st.tv, c, l))

\* a drawTriangle that keeps a zero determinant from the division by
\* replacing it, instead of returning
DenomClamped(d) == IF d = 0 THEN 1 ELSE d

ShadeInClamped(st, c, x, y, s1, s2, s3) ==
    IF << s1, s2, s3 >> = << >> THEN st
    ELSE ShadeAt(st, c, x, y, DenomClamped(Denom(s1, s2, s3)),
                 LambdaOver(DenomClamped(Denom(s1, s2, s3)), s1, s2, s3, x, y),
                 IF version = "phong" THEN 0
                 ELSE Depth(s1, s2, s3,
                            LambdaOver(DenomClamped(Denom(s1, s2, s3)), s1, s2, s3, x, y)))

\* the body of the two loops, from the screen vertices on
ShadeIn(st, c, x, y, s1, s2, s3) ==
    IF << s1, s2, s3 >> = << >> \/ Degenerate(Denom(s1, s2, s3)) THEN st
    ELSE ShadeAt(st, c, x, y, Denom(s1, s2, s3), Lambda(s1, s2, s3, x, y),
                 IF version = "phong" THEN 0
                 ELSE Depth(s1, s2, s3, Lambda(s1, s2, s3, x, y)))

\* the body of the two loops of drawTriangle, at the pixel (x, y)
Shade(st, c, x, y) ==
    ShadeIn(st, c, x, y, ScreenV(st.tv, c, 1), ScreenV(st.tv, c, 2),
            ScreenV(st.tv, c, 3))

\* the pixels of the bounding box are numbered 0, 1, ... in the order of the
\* two loops: for (let y = minY; ...) for (let x = minX; ...)
BoxWidth(box) == Max2(box.maxX - box.minX + 1, 0)
BoxHeight(box) == Max2(box.maxY - box.minY + 1, 0)

\* the two loops, on the pixels numbered lo..hi in their order
RECURSIVE PixelLoop(_, _, _, _, _)
PixelLoop(st, c, box, lo, hi) ==
    CASE After(st, lo > hi) -> st
      [] lo = hi -> Shade(st, c, box.minX + (lo % BoxWidth(box)),
                          box.minY + (lo \div BoxWidth(box)))
      [] OTHER -> PixelLoop(PixelLoop(st, c, box, lo, (lo + hi) \div 2), c, box,
                            (lo + hi) \div 2 + 1, hi)

\* the two loops over the bounding box
Loops(st, c, box) == PixelLoop(st, c, box, 0, BoxWidth(box) * BoxHeight(box) - 1)

\* Lighting3DViewer.drawTriangle
drawTriangle(st, c) ==
    Loops([st EXCEPT !.writes = << >>], c,
          BoundingBox(ScreenV(st.tv, c, 1), ScreenV(st.tv, c, 2), ScreenV(st.tv, c, 3)))

---------------------------------------------------------------------------
(* render, one step at a time: RenderBegin is render() up to the loop over  *)
(* the faces, VisitFace is one iteration of that loop up to its             *)
(* drawTriangle calls, DrawTriangle is one such call, RenderEnd is the      *)
(* call of requestAnimationFrame.                                          *)

model == models[currentModel]

\* half pixels of a fixed-point count of pixels
HalfPx(a) == RoundDiv(2 * a, Unit)

\* the entry of transformedVertices for a vertex, from its scaled position on
TransformedFrom(vertex, scaled) ==
    After(scaled,
    CASE version = "zbuf" ->
           [x |-> HalfPx(scaled.x * 100) + Width,
            y |-> HalfPx(-scaled.y * 100) + Height,
            z |-> scaled.z,
            normal |-> vertex.normal,
            texCoord |-> vertex.texCoord,
            color |-> IF shadingMode = "gouraud"
                      THEN Tint(objectColor, calculateLighting(vertex.normal))
                      ELSE RGB(0, 0, 0)]
      [] version = "phong" ->
           [position |-> Point3D(scaled.x + translation.x, scaled.y + translation.y,
                                 scaled.z + translation.z),
            normal |-> rotatePoint(vertex.normal, rotation.x, rotation.y, rotation.z)]
      [] version = "cull" ->
           [position |-> Point3D(scaled.x, scaled.y, scaled.z),
            normal |-> rotatePoint(vertex.normal, rotation.x, rotation.y, rotation.z)])

\* const transformedVertices = model.vertices.map(...) (in "zbuf" with the
\* colours its gouraud pass assigns right after)
Transformed(vertex) ==
    TransformedFrom(vertex,
        multiply(rotatePoint(vertex.position, rotation.x, rotation.y, rotation.z), scale))

\* the entry of screenVertices of "phong", from factor on
Perspective(position, zDistance, factor) ==
    [x |-> HalfPx(Mul(position.x, factor) * 120) + Width,
     y |-> HalfPx(Mul(-position.y, factor) * 120) + Height,
     z |-> zDistance]

\* const screenVertices = transformedVertices.map(...) ("phong" and "cull")
Projected(vertex) ==
    IF version = "phong"
    THEN Perspective(vertex.position, cameraDistance - vertex.position.z,
                     Div(perspective, perspective + (cameraDistance - vertex.position.z)))
    ELSE [x |-> HalfPx(vertex.position.x * 100) + Width,
          y |-> HalfPx(-vertex.position.y * 100) + Height,
          z |-> vertex.position.z]

\* { r: this.ambient + diffuse * this.objectColor.r, ... }
AmbientPlus(diffuse) ==
    After(diffuse,
          RGB(ambient + Mul(diffuse, objectColor.r), ambient + Mul(diffuse, objectColor.g),
              ambient + Mul(diffuse, objectColor.b)))

\* const vertexColors = this.shadingMode === 'gouraud' ? ... : null
VertexColor(vertex) ==
    IF version = "phong"
    THEN AmbientPlus(Diffuse(normalize(vertex.normal), normalize(lightPosition)))
    ELSE Tint(objectColor, calculateDiffuse(vertex.normal))

\* the visibility test of a face with three indices or more: the test in
\* render of "phong", isFaceVisible of "cull"; "zbuf" has no such test
isFaceVisible(tv, face) ==
    LET pos1 == tv[face.vertexIndices[1] + 1].position
        pos2 == tv[face.vertexIndices[2] + 1].position
        pos3 == tv[face.vertexIndices[3] + 1].position
        normal == cross(subtract(pos2, pos1), subtract(pos3, pos1))
    IN  CASE version = "phong" ->
               dot(normal, subtract(Point3D(0, 0, cameraDistance), pos1)) > 0
          [] version = "cull" -> dot(normal, Point3D(0, 0, -Unit)) > 0
          [] version = "zbuf" -> TRUE

\* the drawTriangle call on the corners a, b, c of a face (0-based)
Call(face, a, b, c) ==
    [i |-> << face.vertexIndices[a + 1], face.vertexIndices[b + 1],
              face.vertexIndices[c + 1] >>,
     texCoord |->
        IF version = "zbuf"
        THEN << transformedVertices[face.vertexIndices[a + 1] + 1].texCoord,
                transformedVertices[face.vertexIndices[b + 1] + 1].texCoord,
                transformedVertices[face.vertexIndices[c + 1] + 1].texCoord >>
        ELSE << face.texCoords[a + 1], face.texCoords[b + 1], face.texCoords[c + 1] >>]

\* a split of the quadrilateral along the other diagonal
TrianglesStrip(face) ==
    CASE Len(face.vertexIndices) = 3 -> << Call(face, 0, 1, 2) >>
      [] Len(face.vertexIndices) = 4 -> << Call(face, 0, 1, 2), Call(face, 1, 2, 3) >>
      [] OTHER -> << >>

\* the drawTriangle calls render makes for a face it draws
Triangles(face) ==
    CASE Len(face.vertexIndices) = 3 -> << Call(face, 0, 1, 2) >>
      [] Len(face.vertexIndices) = 4 -> << Call(face, 0, 1, 2), Call(face, 0, 2, 3) >>
      [] OTHER -> << >>

\* face.calculateNormal(model.vertices.map(v => v.position)) in flat mode of
\* "zbuf": the list holds positions, which have no position field, so v0, v1
\* and v2 are undefined and v1.subtract throws a TypeError
FlatThrows(face) ==
    version = "zbuf" /\ shadingMode = "flat" /\ Len(face.vertexIndices) >= 3

\* vertices.forEach(v => { v.color = ... }) in flat mode of "zbuf"
FlatColors(tv, indices, color) ==
    Array([i \in DOMAIN tv |->
        IF Occurrences(indices, i - 1) > 0 THEN [tv[i] EXCEPT !.color = color]
        ELSE tv[i]])

NoStep == [drew |-> FALSE, visited |-> FALSE]

\* history: the depth of claim C2 at the pixel p of the triangle of call c,
\* cameraDistance - z for the camera-space z interpolated there ("phong"
\* keeps cameraDistance - z as the z of its screen vertices); 0 where the
\* triangle does not cover p or that depth is not positive
CoverDepthAt(s1, s2, s3, l) ==
    IF ~Inside(l) THEN 0
    ELSE IF version = "phong" THEN Max2(Depth(s1, s2, s3, l), 0)
    ELSE Max2(cameraDistance - Depth(s1, s2, s3, l), 0)

CoverDepthIn(s1, s2, s3, p) ==
    IF << s1, s2, s3 >> = << >> \/ Degenerate(Denom(s1, s2, s3)) THEN 0
    ELSE CoverDepthAt(s1, s2, s3, Lambda(s1, s2, s3, p[1], p[2]))

CoverDepth(tv, c, p) ==
    CoverDepthIn(ScreenV(tv, c, 1), ScreenV(tv, c, 2), ScreenV(tv, c, 3), p)

Nearer(a, b) == IF a = 0 THEN b ELSE IF b = 0 THEN a ELSE Min2(a, b)

Written(writes, p) == \E k \in DOMAIN writes : writes[k] = p

\* history: the pass, once the call c on the vertices tv has written `writes`
Drawn(f, tv, c, writes) ==
    [calls |-> f.calls + 1, params |-> f.params,
     near |-> Array([p \in Pixels |-> Nearer(f.near[p], CoverDepth(tv, c, p))]),
     shown |-> Array([p \in Pixels |->
                  IF Written(writes, p) THEN CoverDepth(tv, c, p) ELSE f.shown[p]])]

\* a render that leaves the depth buffer as the pass before left it
clearZBufferSkipped == zBuffer

\* Lighting3DViewer.clearZBuffer ("zbuf")
clearZBuffer == [i \in 0..(Width * Height - 1) |-> MAX_VALUE]

\* this.ctx.fillRect(0, 0, this.canvas.width, this.canvas.height)
fillRect == [p \in Pixels |-> background]

\* history: no triangle of the pass drawn yet, the parameters the pass began with
NewFrame(began) ==
    [calls |-> 0, params |-> began,
     near |-> [p \in Pixels |-> 0], shown |-> [p \in Pixels |-> 0]]

\* a render that keeps the rotated and scaled position in the vertex it maps
verticesMappedInPlace ==
    [k \in DOMAIN model.vertices |->
        [model.vertices[k] EXCEPT
            !.position = multiply(rotatePoint(model.vertices[k].position, rotation.x,
                                              rotation.y, rotation.z), scale)]]

\* model.vertices once render has mapped it: map builds the transformed
\* vertices as objects of their own and assigns nothing to a vertex of the mesh
verticesMapped == model.vertices

RenderBegin ==
    /\ pc = "construct" \/ (pc = "idle" /\ pending > 0)
    /\ pc' = "render"
    /\ pending' = IF pc = "construct" THEN pending ELSE pending - 1
    /\ surface' = fillRect
    /\ zBuffer' = IF version = "zbuf" THEN clearZBuffer ELSE zBuffer
    /\ transformedVertices' = [k \in DOMAIN model.vertices |-> Transformed(model.vertices[k])]
    /\ screenVertices' = IF version = "zbuf" THEN << >>
                         ELSE [k \in DOMAIN model.vertices |->
                                 Projected(transformedVertices'[k])]
    /\ vertexColors' = IF version # "zbuf" /\ shadingMode = "gouraud"
                       THEN [k \in DOMAIN model.vertices |->
                               VertexColor(transformedVertices'[k])]
                       ELSE << >>
    /\ faceIdx' = 0
    /\ queue' = << >>
    /\ last' = NoStep
    /\ frame' = NewFrame(params)
    /\ models' = [models EXCEPT ![currentModel].vertices = verticesMapped]
    /\ UNCHANGED << version, params, threw, events >>

VisitFace ==
    /\ pc = "render" /\ queue = << >> /\ faceIdx < Len(model.faces)
    /\ LET face == model.faces[faceIdx + 1]
           drawn == IF Len(face.vertexIndices) >= 3
                    THEN isFaceVisible(transformedVertices, face)
                    ELSE version = "zbuf"
       IN  IF FlatThrows(face)
           THEN /\ pc' = "idle"
                /\ threw' = TRUE
                /\ faceIdx' = 0
                /\ queue' = << >>
                /\ transformedVertices' = << >>
                /\ screenVertices' = << >>
                /\ vertexColors' = << >>
                /\ last' = NoStep
           ELSE /\ transformedVertices' =
                      IF version = "zbuf" /\ shadingMode = "flat"
                      THEN FlatColors(transformedVertices, face.vertexIndices,
                               Tint(objectColor,
                                    calculateLighting(calculateNormal(face, << >>).normal)))
                      ELSE transformedVertices
                /\ queue' = IF drawn THEN Triangles(face) ELSE << >>
                /\ faceIdx' = faceIdx + 1
                /\ last' = [drew |-> FALSE, visited |-> TRUE, face |-> faceIdx,
                            drawn |-> drawn]
                /\ UNCHANGED << pc, threw, screenVertices, vertexColors >>
    /\ UNCHANGED << version, models, params, zBuffer, surface, pending, events, frame >>

DrawTriangle ==
    /\ pc = "render" /\ queue # << >>
    /\ \E st \in {drawTriangle([surface |-> surface, zBuffer |-> zBuffer,
                               tv |-> transformedVertices, writes |-> << >>],
                              Head(queue))} :
           /\ surface' = st.surface
           /\ zBuffer' = st.zBuffer
           /\ transformedVertices' = st.tv
           /\ last' = [drew |-> TRUE, visited |-> FALSE, call |-> Head(queue),
                       writes |-> st.writes, zBuffer |-> zBuffer, surface |-> surface,
                       tv |-> transformedVertices, face |-> faceIdx - 1]
           /\ frame' = Drawn(frame, transformedVertices, Head(queue), st.writes)
    /\ queue' = Tail(queue)
    /\ UNCHANGED << version, models, params, pc, faceIdx, screenVertices, vertexColors,
                    pending, threw, events >>

\* requestAnimationFrame(() => this.render())
RenderEnd ==
    /\ pc = "render" /\ queue = << >> /\ faceIdx = Len(model.faces)
    /\ pc' = "idle"
    /\ pending' = pending + 1
    /\ faceIdx' = 0
    /\ transformedVertices' = << >>
    /\ screenVertices' = << >>
    /\ vertexColors' = << >>
    /\ last' = NoStep
    /\ UNCHANGED << version, models, params, zBuffer, surface, queue, threw, events,
                    frame >>

---------------------------------------------------------------------------
(* setupEventListeners: the handlers.  A handler is a task of its own: it   *)
(* runs only while no render() call is running.                            *)

ShadingModes == {"flat", "gouraud", "phong"}
TextureTypes == {"checker", "gradient", "stripes"}
LightValues == {-2 * Unit}
AmbientValues == {Unit}
DiffuseValues == {Unit}
RotateValues == {90, 180}
ScaleValues == {Dec(1), Dec(8)}
TranslateValues == {Unit}
Axes == {"x", "y", "z"}

\* handlers that could run while render() is under way
HandlerRunsAnyTime == events < MaxEvents

HandlerRuns == pc = "idle" /\ events < MaxEvents

Handled ==
    /\ events' = events + 1
    /\ last' = NoStep
    /\ UNCHANGED << version, models, zBuffer, surface, pc, locals, pending, threw,
                    frame >>

ModelSelect ==
    /\ HandlerRuns
    /\ \E value \in MODELS(version) : currentModel' = value
    /\ Handled
    /\ UNCHANGED << shadingMode, enableTexturing, textureType, lightPosition,
                    ambientIntensity, diffuseIntensity, rotation, scale, translation >>

ShadingModeChange ==
    /\ HandlerRuns
    /\ \E value \in ShadingModes : shadingMode' = value
    /\ Handled
    /\ UNCHANGED << currentModel, enableTexturing, textureType, lightPosition,
                    ambientIntensity, diffuseIntensity, rotation, scale, translation >>

TexturingChange ==
    /\ HandlerRuns
    /\ \E checked \in BOOLEAN : enableTexturing' = checked
    /\ Handled
    /\ UNCHANGED << currentModel, shadingMode, textureType, lightPosition,
                    ambientIntensity, diffuseIntensity, rotation, scale, translation >>

TextureSelect ==
    /\ HandlerRuns
    /\ \E value \in TextureTypes : textureType' = value
    /\ Handled
    /\ UNCHANGED << currentModel, shadingMode, enableTexturing, lightPosition,
                    ambientIntensity, diffuseIntensity, rotation, scale, translation >>

LightInput ==
    /\ HandlerRuns
    /\ \E id \in Axes, value \in LightValues :
          lightPosition' = [lightPosition EXCEPT ![id] = value]
    /\ Handled
    /\ UNCHANGED << currentModel, shadingMode, enableTexturing, textureType,
                    ambientIntensity, diffuseIntensity, rotation, scale, translation >>

AmbientInput ==
    /\ HandlerRuns /\ version = "zbuf"
    /\ \E value \in AmbientValues : ambientIntensity' = value
    /\ Handled
    /\ UNCHANGED << currentModel, shadingMode, enableTexturing, textureType,
                    lightPosition, diffuseIntensity, rotation, scale, translation >>

DiffuseInput ==
    /\ HandlerRuns /\ version = "zbuf"
    /\ \E value \in DiffuseValues : diffuseIntensity' = value
    /\ Handled
    /\ UNCHANGED << currentModel, shadingMode, enableTexturing, textureType,
                    lightPosition, ambientIntensity, rotation, scale, translation >>

RotateInput ==
    /\ HandlerRuns
    /\ \E id \in Axes, value \in RotateValues :
          rotation' = [rotation EXCEPT ![id] = value]
    /\ Handled
    /\ UNCHANGED << currentModel, shadingMode, enableTexturing, textureType,
                    lightPosition, ambientIntensity, diffuseIntensity, scale, translation >>

ScaleInput ==
    /\ HandlerRuns
    /\ \E value \in ScaleValues : scale' = value
    /\ Handled
    /\ UNCHANGED << currentModel, shadingMode, enableTexturing, textureType,
                    lightPosition, ambientIntensity, diffuseIntensity, rotation,
                    translation >>

TranslateInput ==
    /\ HandlerRuns /\ version = "phong"
    /\ \E id \in Axes, value \in TranslateValues :
          translation' = [translation EXCEPT ![id] = value]
    /\ Handled
    /\ UNCHANGED << currentModel, shadingMode, enableTexturing, textureType,
                    lightPosition, ambientIntensity, diffuseIntensity, rotation, scale >>

Handler ==
    \/ ModelSelect \/ ShadingModeChange \/ TexturingChange \/ TextureSelect
    \/ LightInput \/ AmbientInput \/ DiffuseInput \/ RotateInput \/ ScaleInput
    \/ TranslateInput

---------------------------------------------------------------------------
(* The constructor, up to its call of this.render() *)

Init ==
    /\ version \in VERSIONS
    /\ models = createModels(version)
    /\ currentModel = "cube"
    /\ shadingMode = "gouraud"
    /\ enableTexturing = FALSE
    /\ textureType = "checker"
    /\ lightPosition = Point3D(2 * Unit, 2 * Unit, 2 * Unit)
    /\ ambientIntensity = Dec(20)
    /\ diffuseIntensity = Dec(70)
    /\ rotation = Point3D(0, 0, 0)
    /\ scale = Unit
    /\ translation = Point3D(0, 0, 0)
    /\ zBuffer = << >>
    /\ surface = [p \in Pixels |-> RGB(0, 0, 0)]
    /\ pc = "construct"
    /\ faceIdx = 0
    /\ queue = << >>
    /\ transformedVertices = << >>
    /\ screenVertices = << >>
    /\ vertexColors = << >>
    /\ pending = 0
    /\ threw = FALSE
    /\ events = 0
    /\ last = NoStep
    /\ frame = NewFrame(params)

Next ==
    \/ RenderBegin
    \/ VisitFace
    \/ DrawTriangle
    \/ RenderEnd
    \/ Handler

Spec == Init /\ [][Next]_vars

---------------------------------------------------------------------------
(* new Model3D(vertices, faces) on a mesh other than the presets: before    *)
(* the Construct step models.mesh holds the two arguments of the            *)
(* constructor, after it the mesh built from them; `last` keeps the         *)
(* arguments.                                                               *)

\* the lists of faces the constructor is given: one or two faces, each with
\* 1 to 4 vertex indices and 0, 3 or 4 texture coordinates; << 0, 2, 1 >> is
\* << 0, 1, 2 >> wound the other way
MeshFaceLists ==
    LET indexLists == {<< 0 >>, << 0, 1 >>, << 0, 1, 2 >>, << 0, 2, 1 >>, << 0, 2, 3 >>,
                       << 0, 3, 1 >>, << 1, 3, 2 >>, << 0, 1, 2, 3 >>}
        texCoordLists == {<< >>, << T(0, 0), T(1, 0), T(1, 1) >>,
                          << T(0, 0), T(1, 0), T(1, 1), T(0, 1) >>}
        faces == {F(i, t) : i \in indexLists, t \in texCoordLists}
    IN  {<< f >> : f \in faces} \cup {<< f, g >> : f, g \in faces}

\* the lists of vertices the constructor is given: the four vertices of the
\* tetrahedron; new Vertex(position, normal, texCoord) of "zbuf" takes a
\* normal, here none (null) or (1, 0, 0) for every vertex
MeshVertexLists(v) ==
    {tetraVertices(v)} \cup
    (IF v = "zbuf"
     THEN {[k \in DOMAIN tetraVertices(v) |->
              [tetraVertices(v)[k] EXCEPT !.normal = Point3D(Unit, 0, 0)]]}
     ELSE {})

\* calculateNormals of "phong" and "cull" reads the first three indices of
\* every face: with fewer, this.vertices[undefined] is undefined and reading
\* its position throws a TypeError
ConstructThrows(v, faces) ==
    v # "zbuf" /\ \E k \in DOMAIN faces : Len(faces[k].indices) < 3

InitMesh ==
    /\ version \in VERSIONS
    /\ \E vertices \in MeshVertexLists(version), faces \in MeshFaceLists :
          models = [mesh |-> [vertices |-> vertices, faces |-> faces]]
    /\ currentModel = "mesh"
    /\ shadingMode = "gouraud"
    /\ enableTexturing = FALSE
    /\ textureType = "checker"
    /\ lightPosition = Point3D(2 * Unit, 2 * Unit, 2 * Unit)
    /\ ambientIntensity = Dec(20)
    /\ diffuseIntensity = Dec(70)
    /\ rotation = Point3D(0, 0, 0)
    /\ scale = Unit
    /\ translation = Point3D(0, 0, 0)
    /\ zBuffer = << >>
    /\ surface = [p \in Pixels |-> RGB(0, 0, 0)]
    /\ pc = "new"
    /\ faceIdx = 0
    /\ queue = << >>
    /\ transformedVertices = << >>
    /\ screenVertices = << >>
    /\ vertexColors = << >>
    /\ pending = 0
    /\ threw = FALSE
    /\ events = 0
    /\ last = NoStep
    /\ frame = NewFrame(params)

\* Model3D.constructor
Construct ==
    /\ pc = "new"
    /\ IF ConstructThrows(version, model.faces)
       THEN /\ threw' = TRUE
            /\ pc' = "idle"
            /\ models' = [mesh |-> [vertices |-> << >>, faces |-> << >>]]
       ELSE /\ threw' = FALSE
            /\ pc' = "construct"
            /\ models' = [mesh |-> Model3D(version, model.vertices, model.faces)]
    /\ last' = [drew |-> FALSE, visited |-> FALSE,
                vertices |-> model.vertices, faces |-> model.faces]
    /\ UNCHANGED << version, params, zBuffer, surface, locals, pending, events, frame >>

\* this.calculateVertexNormals() of "zbuf", this.calculateNormals() of the
\* other two, called once more on the mesh the constructor built
Recalculate ==
    /\ pc = "construct" /\ currentModel = "mesh"
    /\ pc' = "recalculated"
    /\ models' = [mesh |-> IF version = "zbuf"
                           THEN calculateVertexNormals(model.vertices, model.faces)
                           ELSE calculateNormals(model.vertices, model.faces)]
    /\ last' = [drew |-> FALSE, visited |-> FALSE,
                vertices |-> last.vertices, faces |-> last.faces, built |-> model]
    /\ UNCHANGED << version, params, zBuffer, surface, locals, pending, threw, events,
                    frame >>

SpecMesh == InitMesh /\ [][Construct \/ Recalculate]_vars

---------------------------------------------------------------------------
(* getTextureColor called on its own, with texture coordinates inside and   *)
(* outside [0,1]; `last` keeps the arguments of the call and what it        *)
(* returned.                                                                *)

UVValues ==
    {-(3 * Unit) \div 2, -Unit \div 8, 0, Unit \div 16, Unit \div 8, Unit \div 2, Unit,
     (9 * Unit) \div 8, 2 * Unit}

InitTexture ==
    /\ version \in VERSIONS
    /\ models = createModels(version)
    /\ currentModel = "cube"
    /\ shadingMode = "gouraud"
    /\ enableTexturing = TRUE
    /\ textureType \in TextureTypes
    /\ lightPosition = Point3D(2 * Unit, 2 * Unit, 2 * Unit)
    /\ ambientIntensity = Dec(20)
    /\ diffuseIntensity = Dec(70)
    /\ rotation = Point3D(0, 0, 0)
    /\ scale = Unit
    /\ translation = Point3D(0, 0, 0)
    /\ zBuffer = IF version = "zbuf" THEN clearZBuffer ELSE << >>
    /\ surface = fillRect
    /\ pc = "idle"
    /\ faceIdx = 0
    /\ queue = << >>
    /\ transformedVertices = << >>
    /\ screenVertices = << >>
    /\ vertexColors = << >>
    /\ pending = 0
    /\ threw = FALSE
    /\ events = 0
    /\ last = NoStep
    /\ frame = NewFrame(params)

\* const texColor = this.getTextureColor(u, v): the call reads
\* this.textureType and assigns to nothing
Sample ==
    /\ pc = "idle"
    /\ \E u \in UVValues, v \in UVValues :
          last' = [drew |-> FALSE, visited |-> FALSE, u |-> u, v |-> v,
                   texColor |-> getTextureColor(u, v),
                   state |-> << models, params, zBuffer, surface >>]
    /\ UNCHANGED << version, models, params, zBuffer, surface, pc, locals, pending,
                    threw, events, frame >>

SpecTexture == InitTexture /\ [][Sample]_vars

---------------------------------------------------------------------------
(* drawTriangle called on its own, as the loop over the faces in render     *)
(* calls it: the pass has cleared the surface and built its vertex lists,   *)
(* and the calls for one face of the mesh wait in the queue.  In flat mode  *)
(* of "zbuf" the vertices of the face carry the colour lines 357-363 give   *)
(* them, here the one lit by the normal the face has kept from the          *)
(* construction (render itself does not get that far in flat mode: its call *)
(* of calculateNormal throws).                                              *)

InitTriangle ==
    /\ version \in VERSIONS
    /\ models = createModels(version)
    /\ currentModel \in {"cube", "tetrahedron"}
    /\ shadingMode \in ShadingModes
    /\ enableTexturing \in BOOLEAN
    /\ textureType \in TextureTypes
    /\ lightPosition = Point3D(2 * Unit, 2 * Unit, 2 * Unit)
    /\ ambientIntensity = Dec(20)
    /\ diffuseIntensity = Dec(70)
    /\ rotation = Point3D(0, 0, 0)
    /\ scale \in {Dec(1), Unit}
    /\ translation = Point3D(0, 0, 0)
    /\ zBuffer = IF version = "zbuf" THEN clearZBuffer ELSE << >>
    /\ surface = fillRect
    /\ pc = "render"
    /\ faceIdx \in 1..Len(model.faces)
    /\ vertexColors = IF version # "zbuf" /\ shadingMode = "gouraud"
                      THEN [k \in DOMAIN model.vertices |->
                              VertexColor(Transformed(model.vertices[k]))]
                      ELSE << >>
    /\ screenVertices = IF version = "zbuf" THEN << >>
                        ELSE [k \in DOMAIN model.vertices |->
                                Projected(Transformed(model.vertices[k]))]
    /\ transformedVertices =
          IF version = "zbuf" /\ shadingMode = "flat"
          THEN FlatColors([k \in DOMAIN model.vertices |-> Transformed(model.vertices[k])],
                          model.faces[faceIdx].vertexIndices,
                          Tint(objectColor, calculateLighting(model.faces[faceIdx].normal)))
          ELSE [k \in DOMAIN model.vertices |-> Transformed(model.vertices[k])]
    /\ queue = IF isFaceVisible(transformedVertices, model.faces[faceIdx])
               THEN Triangles(model.faces[faceIdx]) ELSE << >>
    /\ pending = 0
    /\ threw = FALSE
    /\ events = 0
    /\ last = [drew |-> FALSE, visited |-> TRUE, face |-> faceIdx - 1,
               drawn |-> queue # << >>]
    /\ frame = NewFrame(params)

SpecTriangle == InitTriangle /\ [][DrawTriangle]_vars

---------------------------------------------------------------------------
(* The inside test of drawTriangle in floating point.  A number of          *)
(* JavaScript is a binary float: every operation gives the float nearest to *)
(* the exact result, and the spacing of the floats doubles with each power  *)
(* of two of the magnitude.  Here a float has Precision bits of significand *)
(* (a double has 53) and is counted in units of 1 / Quantum, the spacing of *)
(* the floats next to zero.  The pass is the one of render with no          *)
(* rotation, for which rotatePoint returns the position as it is; the scale *)
(* is the decimal the slider holds.                                         *)

\* the bits of the significand of a float
Precision == 8

\* the floats in a unit next to zero
Quantum == 4096

\* the spacing of the floats at the magnitude q, found by doubling step
RECURSIVE Spacing(_, _)
Spacing(q, step) ==
    IF q >= (2 ^ Precision) * step THEN Spacing(q, 2 * step) ELSE step

\* n / d (n >= 0, d > 0) rounded to the nearest integer, a tie to the even one
RoundEven(n, d) ==
    IF 2 * (n % d) > d \/ (2 * (n % d) = d /\ (n \div d) % 2 = 1)
    THEN n \div d + 1 ELSE n \div d

\* the float nearest to n / d (n >= 0, d > 0)
Nearest(n, d) == Spacing(n \div d, 1) * RoundEven(n, d * Spacing(n \div d, 1))

\* the float nearest to n / d (d # 0): rounding is the same on both sides of 0
Float(n, d) ==
    IF (n < 0) = (d < 0) THEN Nearest(Abs(n), Abs(d)) ELSE -Nearest(Abs(n), Abs(d))

\* a * b, a / b, a + b and a - b of two floats
FloatMul(a, b) == Float(a * b, Quantum)
FloatDiv(a, b) == Float(a * Quantum, b)
FloatAdd(a, b) == Float(a + b, 1)
FloatSub(a, b) == Float(a - b, 1)

\* parseFloat(e.target.value) for the decimal a of the scale slider, and the
\* float of a coordinate of a mesh position (a whole number)
parseFloat(a) == Float(a * Quantum, Unit)

\* rotated.multiply(this.scale), then x: scaled.x * 100 + this.canvas.width / 2,
\* y: -scaled.y * 100 + this.canvas.height / 2
FloatScreen(position, s) ==
    [x |-> FloatAdd(FloatMul(FloatMul(parseFloat(position.x), s), 100 * Quantum),
                    FloatDiv(Width * Quantum, 2 * Quantum)),
     y |-> FloatAdd(FloatMul(-FloatMul(parseFloat(position.y), s), 100 * Quantum),
                    FloatDiv(Height * Quantum, 2 * Quantum))]

\* the same two coordinates in exact arithmetic, from the float of the scale
ExactScreen(position, s) ==
    [x |-> (position.x \div Unit) * s * 100 + (Width * Quantum) \div 2,
     y |-> -(position.y \div Unit) * s * 100 + (Height * Quantum) \div 2]

\* const denom = (v2.y - v3.y) * (v1.x - v3.x) + (v3.x - v2.x) * (v1.y - v3.y)
FloatDenom(s1, s2, s3) ==
    FloatAdd(FloatMul(FloatSub(s2.y, s3.y), FloatSub(s1.x, s3.x)),
             FloatMul(FloatSub(s3.x, s2.x), FloatSub(s1.y, s3.y)))

\* if (Math.abs(denom) < 0.0001) continue
FloatDegenerate(d) == Abs(d) * 10000 < Quantum

\* const lambda3 = 1 - lambda1 - lambda2
FloatLambda3(l1, l2) == << l1, l2, FloatSub(FloatSub(Quantum, l1), l2) >>

\* lambda1, lambda2 and lambda3 at the pixel (x, y), x and y floats
FloatLambdaOver(denom, s1, s2, s3, x, y) ==
    FloatLambda3(
        FloatDiv(FloatAdd(FloatMul(FloatSub(s2.y, s3.y), FloatSub(x, s3.x)),
                          FloatMul(FloatSub(s3.x, s2.x), FloatSub(y, s3.y))), denom),
        FloatDiv(FloatAdd(FloatMul(FloatSub(s3.y, s1.y), FloatSub(x, s3.x)),
                          FloatMul(FloatSub(s1.x, s3.x), FloatSub(y, s3.y))), denom))

\* the pixel p is in the bounding box of the triangle, clipped to the canvas
FloatInBox(s1, s2, s3, p) ==
    /\ Max2(0, Min3(s1.x, s2.x, s3.x) \div Quantum) <= p[1]
    /\ p[1] <= Min2(Width - 1, -((-Max3(s1.x, s2.x, s3.x)) \div Quantum))
    /\ Max2(0, Min3(s1.y, s2.y, s3.y) \div Quantum) <= p[2]
    /\ p[2] <= Min2(Height - 1, -((-Max3(s1.y, s2.y, s3.y)) \div Quantum))

\* the two loops of drawTriangle reach the pixel p and the inside test
\* accepts it
FloatInside(s1, s2, s3, p) ==
    /\ FloatInBox(s1, s2, s3, p)
    /\ ~FloatDegenerate(FloatDenom(s1, s2, s3))
    /\ Inside(FloatLambdaOver(FloatDenom(s1, s2, s3), s1, s2, s3,
                              p[1] * Quantum, p[2] * Quantum))

\* the screen vertex k of the call c, in floating point and in exact
\* arithmetic
FloatScreenV(c, k) == FloatScreen(model.vertices[c.i[k] + 1].position, parseFloat(scale))
ExactScreenV(c, k) == ExactScreen(model.vertices[c.i[k] + 1].position, parseFloat(scale))

\* the pixels the inside test of the call c accepts
InsidePixels(c) ==
    {p \in Pixels : FloatInside(FloatScreenV(c, 1), FloatScreenV(c, 2), FloatScreenV(c, 3), p)}

\* the values of the scale slider
QuadScales == {Milli(n) : n \in 10..20}

InitQuad ==
    /\ version \in {"zbuf", "cull"}
    /\ models = createModels(version)
    /\ currentModel = "cube"
    /\ shadingMode = "gouraud"
    /\ enableTexturing = FALSE
    /\ textureType = "checker"
    /\ lightPosition = Point3D(2 * Unit, 2 * Unit, 2 * Unit)
    /\ ambientIntensity = Dec(20)
    /\ diffuseIntensity = Dec(70)
    /\ rotation = Point3D(0, 0, 0)
    /\ scale \in QuadScales
    /\ translation = Point3D(0, 0, 0)
    /\ zBuffer = IF version = "zbuf" THEN clearZBuffer ELSE << >>
    /\ surface = fillRect
    /\ pc = "render"
    /\ faceIdx \in 1..Len(model.faces)
    /\ vertexColors = IF version # "zbuf"
                      THEN [k \in DOMAIN model.vertices |->
                              VertexColor(Transformed(model.vertices[k]))]
                      ELSE << >>
    /\ screenVertices = IF version = "zbuf" THEN << >>
                        ELSE [k \in DOMAIN model.vertices |->
                                Projected(Transformed(model.vertices[k]))]
    /\ transformedVertices = [k \in DOMAIN model.vertices |-> Transformed(model.vertices[k])]
    /\ queue = IF isFaceVisible(transformedVertices, model.faces[faceIdx])
               THEN Triangles(model.faces[faceIdx]) ELSE << >>
    /\ pending = 0
    /\ threw = FALSE
    /\ events = 0
    /\ last = [drew |-> FALSE, visited |-> TRUE, face |-> faceIdx - 1,
               drawn |-> queue # << >>, calls |-> << >>, inside |-> << >>]
    /\ frame = NewFrame(params)

\* the two loops of one drawTriangle call up to the inside test: last.inside
\* lists, call by call, the pixels the test has accepted for the face
InsideTest ==
    /\ pc = "render" /\ queue # << >>
    /\ queue' = Tail(queue)
    /\ last' = [last EXCEPT !.visited = FALSE,
                            !.calls = Append(last.calls, Head(queue)),
                            !.inside = Append(last.inside, InsidePixels(Head(queue)))]
    /\ UNCHANGED << version, models, params, zBuffer, surface, pc, faceIdx,
                    transformedVertices, screenVertices, vertexColors, pending, threw,
                    events, frame >>

SpecQuad == InitQuad /\ [][InsideTest]_vars

---------------------------------------------------------------------------
(* The claims.  `last` holds what the step just taken did: after a          *)
(* DrawTriangle step its call, the pixels it wrote, and the depth buffer,   *)
(* the surface and the vertices as they were before the call; after a       *)
(* VisitFace step the face visited and whether render went on to draw it.   *)

\* screenV1, screenV2, screenV3 of the drawTriangle call of the last step
LastScreen(k) == ScreenV(last.tv, last.call, k)

\* the depth that call interpolates at the pixel p
LastDepth(p) ==
    Depth(LastScreen(1), LastScreen(2), LastScreen(3),
          Lambda(LastScreen(1), LastScreen(2), LastScreen(3), p[1], p[2]))

\* the index of the pixel p in the depth buffer
BufferIndex(p) == p[2] * Width + p[1]

(* C1: a drawTriangle call writes a pixel, and stores its depth, only where *)
(* the depth interpolated from the three vertices is positive and strictly  *)
(* less than the depth stored for the pixel before; every other pixel keeps *)
(* its colour and its stored depth.                                         *)
C1_DepthTestGuardsWrite ==
    last.drew =>
        \A p \in Pixels :
            IF Written(last.writes, p)
            THEN /\ BufferIndex(p) \in DOMAIN last.zBuffer
                 /\ LastDepth(p) > 0
                 /\ LastDepth(p) < last.zBuffer[BufferIndex(p)]
                 /\ BufferIndex(p) \in DOMAIN zBuffer
                 /\ zBuffer[BufferIndex(p)] = LastDepth(p)
            ELSE /\ surface[p] = last.surface[p]
                 /\ (BufferIndex(p) \in DOMAIN zBuffer) =
                        (BufferIndex(p) \in DOMAIN last.zBuffer)
                 /\ BufferIndex(p) \in DOMAIN zBuffer =>
                        zBuffer[BufferIndex(p)] = last.zBuffer[BufferIndex(p)]

(* C2: once a render pass has ended, every pixel that triangles of the pass *)
(* cover shows the covering triangle nearest the camera: the depth          *)
(* cameraDistance - z at the pixel of the triangle that wrote it last is    *)
(* the least positive depth any covering triangle of the pass has there,    *)
(* whatever the order of the calls (depths 2/Unit apart count as equal).    *)
C2_NearestTriangleShown ==
    pc = "idle" /\ ~threw =>
        \A p \in Pixels :
            frame.near[p] # 0 =>
                frame.shown[p] # 0 /\ frame.shown[p] - frame.near[p] <= 2

(* C3: when a render pass is about to draw its first triangle, every pixel  *)
(* of the surface holds the background colour and every entry of the depth  *)
(* buffer holds the sentinel Number.MAX_VALUE: nothing an earlier pass      *)
(* wrote is left.  "zbuf" is the version with a depth buffer, one entry for *)
(* each pixel; the other two keep none.                                     *)
C3_PassStartsCleared ==
    pc = "render" /\ frame.calls = 0 =>
        /\ \A p \in Pixels : surface[p] = background
        /\ version = "zbuf" => DOMAIN zBuffer = 0..(Width * Height - 1)
        /\ \A i \in DOMAIN zBuffer : zBuffer[i] = MAX_VALUE

\* a later pass of "zbuf", after a parameter change, about to draw its first
\* triangle
C3_Witness ==
    /\ version = "zbuf" /\ pc = "render" /\ frame.calls = 0
    /\ events > 0 /\ queue # << >>

\* the position of the vertex with index idx in camera space: rotated,
\* scaled and, in "phong", translated
CameraPosition(idx) ==
    IF version = "phong"
    THEN add(multiply(rotatePoint(model.vertices[idx + 1].position,
                                  rotation.x, rotation.y, rotation.z), scale),
             translation)
    ELSE multiply(rotatePoint(model.vertices[idx + 1].position,
                              rotation.x, rotation.y, rotation.z), scale)

\* (v1 - v0) x (v2 - v0) . (camera - v0) > 0 in camera space, the camera at
\* (0, 0, cameraDistance)
FacesCameraAt(p0, p1, p2) ==
    dot(cross(subtract(p1, p0), subtract(p2, p0)),
        subtract(Point3D(0, 0, cameraDistance), p0)) > 0

FacesCamera(face) ==
    FacesCameraAt(CameraPosition(face.vertexIndices[1]),
                  CameraPosition(face.vertexIndices[2]),
                  CameraPosition(face.vertexIndices[3]))

(* C4: render draws a face if and only if its camera-space normal           *)
(* (v1 - v0) x (v2 - v0) has a positive dot product with the vector from    *)
(* the face to the camera, and a drawTriangle call is only ever made for    *)
(* such a face.                                                             *)
C4_DrawnIffFacingCamera ==
    /\ last.visited /\ Len(model.faces[last.face + 1].vertexIndices) >= 3 =>
           (last.drawn <=> FacesCamera(model.faces[last.face + 1]))
    /\ last.drew => FacesCamera(model.faces[last.face + 1])

\* the z of the sum of the positions of a face's vertices: for a cube about
\* the origin it has the sign of the z of the outward normal
OutwardZ(face) ==
    model.vertices[face.vertexIndices[1] + 1].position.z
    + model.vertices[face.vertexIndices[2] + 1].position.z
    + model.vertices[face.vertexIndices[3] + 1].position.z
    + model.vertices[face.vertexIndices[4] + 1].position.z

(* C5: for the cube with no rotation, no translation and scale 1, a face    *)
(* passes the visibility test of render if and only if its outward normal   *)
(* has a positive z ("zbuf" has no visibility test).                        *)
C5_CubeFacesTowardsZ ==
    /\ version # "zbuf" /\ last.visited /\ currentModel = "cube"
    /\ rotation = Point3D(0, 0, 0) /\ translation = Point3D(0, 0, 0) /\ scale = Unit
    => (last.drawn <=> OutwardZ(model.faces[last.face + 1]) > 0)

(* C6: in flat mode, texturing off, all the pixels one drawTriangle call    *)
(* writes for a face get one and the same colour.                           *)
C6_FlatFaceOneColour ==
    shadingMode = "flat" /\ ~enableTexturing /\ last.drew =>
        \A j, k \in DOMAIN last.writes :
            surface[last.writes[j]] = surface[last.writes[k]]

(* C7: no handler runs while a render pass is under way: all through a pass *)
(* the render-state fields (model, shading mode, texturing flag and         *)
(* pattern, light, intensities, rotation, scale, translation) have the      *)
(* values they had when the pass began, so a change shows only in passes    *)
(* that begin after it.                                                     *)
C7_PassSeesOneState == pc = "render" => params = frame.params

\* a pass that began after a parameter change and has drawn a triangle
C7_Witness == pc = "render" /\ events > 0 /\ last.drew

(* C8: every pixel (x, y) a drawTriangle call writes has 0 <= x <= width-1  *)
(* and 0 <= y <= height-1.                                                  *)
C8_WritesInsideSurface ==
    last.drew =>
        \A k \in DOMAIN last.writes :
            /\ 0 <= last.writes[k][1] /\ last.writes[k][1] <= Width - 1
            /\ 0 <= last.writes[k][2] /\ last.writes[k][2] <= Height - 1

\* the screen vertex lies off the surface (coordinates in half pixels)
OffSurface(s) ==
    s.x < 0 \/ s.x > 2 * (Width - 1) \/ s.y < 0 \/ s.y > 2 * (Height - 1)

\* a call that wrote pixels for a triangle with a vertex off the surface
C8_Witness ==
    /\ last.drew /\ last.writes # << >>
    /\ \E k \in 1..3 : OffSurface(LastScreen(k))

\* the three screen vertices lie on one line
Collinear(s1, s2, s3) ==
    (s2.x - s1.x) * (s3.y - s1.y) = (s3.x - s1.x) * (s2.y - s1.y)

(* C9: a drawTriangle call whose three screen vertices are collinear writes *)
(* no pixel (and divides by nothing: the determinant is 0 and every pixel   *)
(* is skipped).                                                             *)
C9_CollinearWritesNothing ==
    last.drew /\ Collinear(LastScreen(1), LastScreen(2), LastScreen(3)) =>
        last.writes = << >>

\* a collinear triangle one of whose vertices sits on a pixel of the surface
C9_Witness ==
    /\ last.drew /\ Collinear(LastScreen(1), LastScreen(2), LastScreen(3))
    /\ \E p \in Pixels, k \in 1..3 :
           LastScreen(k).x = 2 * p[1] /\ LastScreen(k).y = 2 * p[2]

\* the texture coordinate render hands to drawTriangle for the corner n of a
\* face: that of the vertex in "zbuf", that of the face in the other two
CornerTexCoord(face, n) ==
    IF version = "zbuf" THEN model.vertices[face.vertexIndices[n + 1] + 1].texCoord
    ELSE face.texCoords[n + 1]

\* the call is the triangle on the corners a, b, c of the face
IsTriangleOf(call, face, a, b, c) ==
    /\ call.i = << face.vertexIndices[a + 1], face.vertexIndices[b + 1],
                   face.vertexIndices[c + 1] >>
    /\ call.texCoord = << CornerTexCoord(face, a), CornerTexCoord(face, b),
                          CornerTexCoord(face, c) >>

LastFace == model.faces[last.face + 1]

(* C10: a face render draws is drawn as exactly the triangles on its        *)
(* corners (0, 1, 2) and (0, 2, 3) if it has four vertex indices and as the *)
(* one triangle (0, 1, 2) if it has three, each with the vertices and the   *)
(* texture coordinates of those corners; no other drawTriangle call is made *)
(* for it.                                                                  *)
C10_QuadIsTwoTriangles ==
    /\ last.visited /\ last.drawn /\ Len(LastFace.vertexIndices) = 4 =>
           /\ Len(queue) = 2
           /\ IsTriangleOf(queue[1], LastFace, 0, 1, 2)
           /\ IsTriangleOf(queue[2], LastFace, 0, 2, 3)
    /\ last.visited /\ last.drawn /\ Len(LastFace.vertexIndices) = 3 =>
           /\ Len(queue) = 1
           /\ IsTriangleOf(queue[1], LastFace, 0, 1, 2)
    /\ last.drew =>
           \/ IsTriangleOf(last.call, LastFace, 0, 1, 2) /\ Len(queue) = Len(LastFace.vertexIndices) - 3
           \/ /\ Len(LastFace.vertexIndices) = 4 /\ queue = << >>
              /\ IsTriangleOf(last.call, LastFace, 0, 2, 3)

\* render has just split a quadrilateral it draws
C10_Witness ==
    /\ last.visited /\ last.drawn /\ Len(LastFace.vertexIndices) = 4
    /\ Len(queue) = 2

\* the orders in which the three vertices of a call can be given
Orders == {<< 1, 2, 3 >>, << 1, 3, 2 >>, << 2, 1, 3 >>, << 2, 3, 1 >>, << 3, 1, 2 >>,
           << 3, 2, 1 >>}

\* the call with its vertices, and their texture coordinates, in the order o
Reordered(c, o) ==
    [i |-> << c.i[o[1]], c.i[o[2]], c.i[o[3]] >>,
     texCoord |-> << c.texCoord[o[1]], c.texCoord[o[2]], c.texCoord[o[3]] >>]

\* the set of the pixels in a list of writes
PixelSet(writes) == {writes[k] : k \in DOMAIN writes}

\* the pixels drawTriangle writes for the triangle of the last step with its
\* vertices in the order o, from the surface, the depth buffer and the
\* vertices as they were before that step
RedrawnPixels(o) ==
    PixelSet(drawTriangle([surface |-> last.surface, zBuffer |-> last.zBuffer,
                           tv |-> last.tv, writes |-> << >>],
                          Reordered(last.call, o)).writes)

(* C11: drawTriangle on the same triangle with its three vertices in any    *)
(* other order, from the same depth buffer, writes the same set of pixels.  *)
C11_VertexOrderSamePixels ==
    last.drew => \A o \in Orders : RedrawnPixels(o) = PixelSet(last.writes)

\* the barycentric weights of the drawTriangle call of the last step at the
\* pixel p
LastLambda(p) == Lambda(LastScreen(1), LastScreen(2), LastScreen(3), p[1], p[2])

\* the colour that call hands to fillStyle for a pixel with the weights l
ColorAt(l) == Clamped(Textured(LitColor(last.tv, last.call, l), last.call, l))

LastColor(p) == ColorAt(LastLambda(p))

InUnit(a) == 0 <= a /\ a <= Unit

(* C12: every colour a drawTriangle call writes to the surface (the pixel   *)
(* holds it as the fillStyle made of it) has its r, g and b in [0,1], in    *)
(* every shading mode, texturing on or off, for the light positions and     *)
(* intensities of the handlers.                                             *)
C12_ChannelsInUnitRange ==
    last.drew =>
        \A k \in DOMAIN last.writes :
            /\ surface[last.writes[k]] = FillStyle(LastColor(last.writes[k]))
            /\ InUnit(LastColor(last.writes[k]).r)
            /\ InUnit(LastColor(last.writes[k]).g)
            /\ InUnit(LastColor(last.writes[k]).b)

\* a call of "zbuf" that wrote pixels with the ambient intensity raised to 1,
\* where ambient + diffuse is above 1 at every lit vertex
C12_Witness ==
    /\ version = "zbuf" /\ ambientIntensity = Unit
    /\ last.drew /\ last.writes # << >>

\* the rotation of p by d degrees about the X, the Y and the Z axis, as the
\* rotation matrices give it
AboutX(p, d) ==
    Point3D(p.x, Mul(p.y, CosDeg(d)) - Mul(p.z, SinDeg(d)),
            Mul(p.y, SinDeg(d)) + Mul(p.z, CosDeg(d)))
AboutY(p, d) ==
    Point3D(Mul(p.x, CosDeg(d)) + Mul(p.z, SinDeg(d)), p.y,
            Mul(p.z, CosDeg(d)) - Mul(p.x, SinDeg(d)))
AboutZ(p, d) ==
    Point3D(Mul(p.x, CosDeg(d)) - Mul(p.y, SinDeg(d)),
            Mul(p.x, SinDeg(d)) + Mul(p.y, CosDeg(d)), p.z)

\* p turned about X, then about Y, then about Z by the angles of `rotation`
Turned(p) == AboutZ(AboutY(AboutX(p, rotation.x), rotation.y), rotation.z)

\* q times the scale, plus the translation offset as it is
Offset(q) ==
    Point3D(Mul(q.x, scale) + translation.x, Mul(q.y, scale) + translation.y,
            Mul(q.z, scale) + translation.z)

\* p rotated, then scaled, then translated
Placed(p) == Offset(Turned(p))

\* the transformed vertex tv holds the position q ("zbuf" keeps it as its
\* screen x and y and its z)
HoldsPosition(tv, q) ==
    IF version = "zbuf"
    THEN /\ tv.x = HalfPx(q.x * 100) + Width
         /\ tv.y = HalfPx(-q.y * 100) + Height
         /\ tv.z = q.z
    ELSE tv.position = q

\* render has just built the transformed vertices of a pass
PassBegun == pc = "render" /\ faceIdx = 0 /\ queue = << >>

(* C13: the position of each transformed vertex that render builds for a    *)
(* pass is the mesh position rotated about X, then Y, then Z, then          *)
(* multiplied by the scale, with the translation offset added last, neither *)
(* rotated nor scaled.                                                      *)
C13_RotateScaleThenTranslate ==
    PassBegun =>
        \A k \in DOMAIN transformedVertices :
            HoldsPosition(transformedVertices[k], Placed(model.vertices[k].position))

\* a pass of "phong" begun with a translation offset and a rotation
C13_Witness ==
    /\ version = "phong" /\ PassBegun /\ transformedVertices # << >>
    /\ translation # Point3D(0, 0, 0) /\ rotation # Point3D(0, 0, 0)

\* the colour gouraud mode gives a vertex whose lighting normal is n
GouraudColor(n) ==
    IF version = "zbuf" THEN Tint(objectColor, calculateLighting(n))
    ELSE VertexColor([normal |-> n])

\* the colour render has given the vertex k in gouraud mode
VertexColorOf(k) ==
    IF version = "zbuf" THEN transformedVertices[k].color ELSE vertexColors[k]

(* C14: the normal that lights a vertex of a pass is the vertex normal of   *)
(* the mesh rotated about X, then Y, then Z by the angles applied           *)
(* to the position, neither scaled nor translated: it is the normal of the  *)
(* transformed vertex in every shading mode, and the one the vertex colour  *)
(* of gouraud mode is computed from.                                        *)
C14_NormalRotatedWithPosition ==
    PassBegun =>
        \A k \in DOMAIN transformedVertices :
            /\ transformedVertices[k].normal = Turned(model.vertices[k].normal)
            /\ shadingMode = "gouraud" =>
                   VertexColorOf(k) = GouraudColor(Turned(model.vertices[k].normal))

(* C15: the meshes are those createModels built, and no step of a render    *)
(* pass and no handler changes a mesh: the vertex positions, the vertex     *)
(* normals, the texture coordinates and the index lists of the faces stay   *)
(* as they were right after construction.                                   *)
C15_MeshNeverMutated ==
    /\ models = createModels(version)
    /\ [][models' = models]_vars

\* a pass that has drawn triangles has ended, after a parameter change
C15_Witness == pc = "idle" /\ events > 0 /\ frame.calls > 0 /\ pending > 0

\* the face given to the constructor has fewer than 3 vertex indices
IsShort(f) == Len(f.indices) < 3

\* a mesh has just been constructed, or its construction has just failed
Constructed == pc # "new" /\ currentModel = "mesh"

\* the mesh the constructor builds from the same vertices and the faces of 3
\* indices or more alone
WithoutShort ==
    Model3D(version, last.vertices, SelectSeq(last.faces, LAMBDA f : ~IsShort(f)))

(* C16: the construction of a mesh with a face of fewer than 3 vertex       *)
(* indices does not fail, and every vertex gets the normal it gets without  *)
(* that face.                                                               *)
C16_ShortFaceAddsNothing ==
    Constructed /\ (\E k \in DOMAIN last.faces : IsShort(last.faces[k])) =>
        /\ ~threw
        /\ \A k \in DOMAIN last.vertices :
               model.vertices[k].normal = WithoutShort.vertices[k].normal

\* the face is given a list of texture coordinates of another length than its
\* list of vertex indices
UVMismatch(f) == Len(f.texCoords) # Len(f.indices)

(* C17: in the versions whose faces carry the texture coordinates, the      *)
(* construction of a mesh with a face whose list of texture coordinates has *)
(* another length than its list of vertex indices fails.                    *)
C17_UVMismatchFailsConstruction ==
    /\ Constructed /\ version # "zbuf"
    /\ \E k \in DOMAIN last.faces : UVMismatch(last.faces[k])
    => threw

\* the selected texture type is none of the patterns getTextureColor of the
\* version has a branch for
NoSuchPattern ==
    CASE version = "zbuf" -> textureType \notin {"checker", "gradient", "stripes"}
      [] version = "phong" -> textureType \notin {"checker", "gradient"}
      [] version = "cull" -> textureType # "checker"

\* the colour a pixel with the weights l gets when the texture colour is the
\* same white at every (u, v)
WhiteTextured(l) ==
    Clamped(Modulate(LitColor(last.tv, last.call, l), RGB(Unit, Unit, Unit)))

Sampled == pc = "idle" /\ last # NoStep /\ ~last.drew /\ ~last.visited

\* the two colours of the checker pattern
CheckerColours ==
    IF version = "zbuf" THEN {RGB(Unit, 0, 0), RGB(0, 0, Unit)}
    ELSE {RGB(Unit, Unit, Unit), RGB(Dec(30), Dec(30), Dec(30))}

\* the cells of the checker pattern along one axis of the unit square
CheckerCells == IF version = "zbuf" THEN 4 ELSE 8

\* the number of the cell of a coordinate within [0,1]
CellOf(a) == (a * CheckerCells) \div Unit

Corners == {<< 0, 0 >>, << Unit, 0 >>, << 0, Unit >>, << Unit, Unit >>}

(* C19: with the checker pattern selected, getTextureColor returns one of   *)
(* the two fixed colours of the pattern, at the four corners (0,0), (1,0),  *)
(* (0,1), (1,1) as everywhere else; the pattern has 8 cells per axis (4 in  *)
(* "zbuf"): within the unit square the first colour is returned exactly     *)
(* where the cell numbers of u and v are both even or both odd; a second    *)
(* call on the same (u, v) returns the colour of the first, and the call    *)
(* changes no state.                                                        *)
C19_CheckerTwoColoursPure ==
    Sampled /\ textureType = "checker" =>
        /\ last.texColor \in CheckerColours
        /\ \A c \in Corners :
               getTextureColor(c[1], c[2]) \in CheckerColours
        /\ 0 <= last.u /\ last.u <= Unit /\ 0 <= last.v /\ last.v <= Unit =>
               ((last.texColor = getTextureColor(0, 0)) <=>
                    (CellOf(last.u) + CellOf(last.v)) % 2 = 0)
        /\ getTextureColor(last.u, last.v) = last.texColor
        /\ last.state = << models, params, zBuffer, surface >>

\* the call just made was on the corner (1, 1) of the checker pattern
C19_Witness ==
    /\ Sampled /\ textureType = "checker"
    /\ last.u = Unit /\ last.v = Unit

\* a coordinate outside [0,1] clamped to [0,1], and wrapped into [0,1)
ClampedUV(a) == Min2(Max2(a, 0), Unit)
WrappedUV(a) == IF 0 <= a /\ a <= Unit THEN a ELSE a - Floor(a) * Unit

\* getTextureColor on every (u, v) gives what it gives on the clamped
\* coordinates; the same for the wrapped coordinates
ClampPolicy ==
    \A u \in UVValues, v \in UVValues :
        getTextureColor(u, v) = getTextureColor(ClampedUV(u), ClampedUV(v))
WrapPolicy ==
    \A u \in UVValues, v \in UVValues :
        getTextureColor(u, v) = getTextureColor(WrappedUV(u), WrappedUV(v))

(* C20: getTextureColor treats the coordinates outside [0,1] by one fixed   *)
(* policy: for every (u, v) it returns what it returns for the clamped      *)
(* coordinates, or for every (u, v) what it returns for the wrapped ones,   *)
(* negative u or v in the checker pattern included.                         *)
C20_OutOfRangeClampedOrWrapped ==
    Sampled => ClampPolicy \/ WrapPolicy

\* v1, v2, v3 of the drawTriangle call of the last step
LastV(k) == last.tv[last.call.i[k] + 1]

\* what calculatePhong returns for the pixel with the weights l of that call:
\* ambient, diffuse and specular
PhongAt(l) ==
    calculatePhong(
        normalize(InterpolatePoint(l, LastV(1).normal, LastV(2).normal, LastV(3).normal)),
        subtract(Point3D(0, 0, cameraDistance),
                 InterpolatePoint(l, LastV(1).position, LastV(2).position,
                                  LastV(3).position)))

\* a drawTriangle call of "phong" in phong mode has just been made
PhongDrew == version = "phong" /\ shadingMode = "phong" /\ last.drew

GatedSpecular(terms) == terms.diffuse = 0 => terms.specular = 0

(* C21: in phong mode, at every pixel a drawTriangle call writes, the       *)
(* specular term calculatePhong returns is zero whenever its diffuse term   *)
(* is zero (the interpolated normal faces away from the light).             *)
C21_SpecularGatedByDiffuse ==
    PhongDrew =>
        \A k \in DOMAIN last.writes : GatedSpecular(PhongAt(LastLambda(last.writes[k])))

\* ambient*objectColor + diffuse*objectColor + specular*specularColor on each
\* channel, for the terms calculatePhong returned
AmbientOfObject(terms) ==
    RGB(Mul(terms.ambient, objectColor.r) + Mul(terms.diffuse, objectColor.r)
           + Mul(terms.specular, specularColor.r),
        Mul(terms.ambient, objectColor.g) + Mul(terms.diffuse, objectColor.g)
           + Mul(terms.specular, specularColor.g),
        Mul(terms.ambient, objectColor.b) + Mul(terms.diffuse, objectColor.b)
           + Mul(terms.specular, specularColor.b))

(* C22: in phong mode the colour of every pixel a drawTriangle call writes, *)
(* before texturing and clamping, is ambient*objectColor                    *)
(* + diffuse*objectColor + specular*specularColor on each channel: the      *)
(* ambient term is multiplied by the object colour.                         *)
C22_AmbientTimesObjectColour ==
    PhongDrew =>
        \A k \in DOMAIN last.writes :
            LitColor(last.tv, last.call, LastLambda(last.writes[k])) =
                AmbientOfObject(PhongAt(LastLambda(last.writes[k])))

\* none of the faces given to the constructor has fewer than 3 vertex indices
NoShortFace == \A k \in DOMAIN last.faces : ~IsShort(last.faces[k])

\* the normalized (v1 - v0) x (v2 - v0) of the faces given to the constructor
GivenNormals ==
    [j \in DOMAIN last.faces |->
        [normal |-> FaceNormal(last.vertices, [vertexIndices |-> last.faces[j].indices])]]

\* the sum, on one axis, of the normals of the given faces at each corner
\* they have on the vertex of index idx
GivenSum(idx, axis) ==
    SumNormals(GivenNormals,
               [j \in DOMAIN last.faces |-> [vertexIndices |-> last.faces[j].indices]],
               idx, axis, 1, Len(last.faces))

\* the vertex of index idx is a corner of a given face, and the normals of
\* the faces it is a corner of cancel exactly
NormalsCancel(idx) ==
    /\ \E j \in DOMAIN last.faces : Occurrences(last.faces[j].indices, idx) > 0
    /\ GivenSum(idx, "x") = 0 /\ GivenSum(idx, "y") = 0 /\ GivenSum(idx, "z") = 0

(* C23: normalize of the zero vector is the zero vector, and the            *)
(* construction of a mesh (faces of 3 indices or more) in which the normals *)
(* of the faces at a vertex cancel exactly does not fail and leaves that    *)
(* vertex with the normal (0, 0, 0).                                        *)
C23_ZeroNormalStaysZero ==
    Constructed /\ NoShortFace =>
        /\ ~threw
        /\ normalize(Zero3) = Zero3
        /\ \A k \in DOMAIN last.vertices :
               NormalsCancel(k - 1) => model.vertices[k].normal = Zero3

\* a mesh has been built of a triangle and the same triangle wound the other
\* way: the two face normals cancel at each of its three vertices
C23_Witness ==
    /\ Constructed /\ pc = "construct" /\ NoShortFace /\ Len(last.faces) = 2
    /\ last.faces[1].indices = << 0, 1, 2 >> /\ last.faces[2].indices = << 0, 2, 1 >>
    /\ NormalsCancel(0) /\ NormalsCancel(1) /\ NormalsCancel(2)

(* C27: the pass over the vertex normals (calculateVertexNormals,           *)
(* calculateNormals) run again on the mesh it has built leaves every vertex *)
(* normal, and the rest of the mesh, as the first run left it: the normals  *)
(* of the first run are zeroed, not added to.                               *)
C27_NormalPassIdempotent ==
    pc = "recalculated" => model = last.built

\* the pass has been run again on a mesh of "zbuf" whose vertices were given
\* a normal of their own, one of them shared by two faces whose normals differ
C27_Witness ==
    /\ pc = "recalculated" /\ version = "zbuf" /\ Len(last.faces) = 2
    /\ last.vertices[1].normal = Point3D(Unit, 0, 0)
    /\ last.faces[1].indices = << 0, 1, 2 >> /\ last.faces[2].indices = << 0, 2, 3 >>
    /\ model.vertices[1].normal # Zero3

(* C24: no render pass stops before it has scheduled its successor: no pass *)
(* ends in an exception, and whenever no pass is under way exactly one call *)
(* of render is scheduled, in every shading mode, for every mesh of         *)
(* createModels, texturing on or off.                                       *)
C24_PassSchedulesNext ==
    /\ ~threw
    /\ pc = "idle" => pending = 1
    /\ pc = "render" => pending = 0

\* normalize(2 (normal . lightDir) normal - lightDir): lightDir mirrored about
\* the normal
Mirrored(lightDir, normal) ==
    normalize(subtract(multiply(normal, 2 * dot(normal, lightDir)), lightDir))

\* normNormal of calculatePhong for the pixel with the weights l of the
\* drawTriangle call of the last step
PixelNormal(l) ==
    normalize(normalize(
        InterpolatePoint(l, LastV(1).normal, LastV(2).normal, LastV(3).normal)))

\* a and b differ by no more than 2/Unit on each axis
NearPoint(a, b) ==
    Abs(a.x - b.x) <= 2 /\ Abs(a.y - b.y) <= 2 /\ Abs(a.z - b.z) <= 2

(* C26: in phong mode the reflection vector calculatePhong uses at every    *)
(* pixel a drawTriangle call writes is normalize(2 (normal . lightDir)      *)
(* normal - lightDir), the light direction mirrored about the normal; for a *)
(* normal equal to the light direction it is the light direction (to        *)
(* within the rounding of normalize).                                       *)
C26_ReflectionMirrorsLight ==
    PhongDrew =>
        /\ \A k \in DOMAIN last.writes :
               reflectDir(normalize(lightPosition), PixelNormal(LastLambda(last.writes[k])))
                 = Mirrored(normalize(lightPosition), PixelNormal(LastLambda(last.writes[k])))
        /\ NearPoint(reflectDir(normalize(lightPosition), normalize(lightPosition)),
                     normalize(lightPosition))

\* the face has 3 or 4 vertex indices, each the index of one of n vertices
WellFormedFace(face, n) ==
    /\ Len(face.vertexIndices) \in {3, 4}
    /\ \A j \in DOMAIN face.vertexIndices :
           0 <= face.vertexIndices[j] /\ face.vertexIndices[j] < n

(* C28: every face of every mesh createModels has built (cube,              *)
(* tetrahedron, octahedron and the sphere of "zbuf") has 3 or 4 vertex      *)
(* indices, each at least 0 and less than the number of vertices of its     *)
(* mesh, the last row and the last column of the sphere included.           *)
C28_PresetFacesWellFormed ==
    \A m \in DOMAIN models :
        \A k \in DOMAIN models[m].faces :
            WellFormedFace(models[m].faces[k], Len(models[m].vertices))

\* render has just drawn a triangle of the last face of the sphere, the one
\* of the last row and the last column
C28_Witness ==
    /\ version = "zbuf" /\ currentModel = "sphere" /\ last.drew
    /\ last.face = stacks * slices - 1
    /\ Len(model.vertices) = (stacks + 1) * (slices + 1)
    /\ \E j \in 1..3 : last.call.i[j] = Len(model.vertices) - 1

\* a triangle of the pass under way, or of the pass that ended last, has
\* painted the pixel p
Painted(p) == frame.shown[p] # 0

\* the depth z the triangle that painted p last interpolated there
\* (frame.shown keeps it as cameraDistance - z)
PaintedDepth(p) == cameraDistance - frame.shown[p]

\* the depth stored for p is the sentinel and p is not painted, or it is the
\* positive depth of the triangle that painted p
SentinelOrPainted(p) ==
    /\ BufferIndex(p) \in DOMAIN zBuffer
    /\ IF Painted(p)
       THEN zBuffer[BufferIndex(p)] > 0 /\ zBuffer[BufferIndex(p)] = PaintedDepth(p)
       ELSE zBuffer[BufferIndex(p)] = MAX_VALUE

\* a step that does not begin a pass stores no greater depth for any pixel
NoDepthIncrease ==
    pc = "render" \/ pc' # "render" =>
        /\ DOMAIN zBuffer' = DOMAIN zBuffer
        /\ \A i \in DOMAIN zBuffer : zBuffer'[i] <= zBuffer[i]

(* C30: in "zbuf", from the start of a pass to the start of the next, the   *)
(* depth stored for a pixel never increases, and at every moment it is      *)
(* either Number.MAX_VALUE, the pixel being painted by no triangle of the   *)
(* pass, or the positive depth of the triangle of the pass that painted the *)
(* pixel last.                                                              *)
C30_DepthOnlyDecreases ==
    /\ [](version = "zbuf" /\ pc # "construct" => \A p \in Pixels : SentinelOrPainted(p))
    /\ [][NoDepthIncrease]_vars

\* a drawTriangle call of "zbuf" has just covered a pixel that a triangle of
\* the same pass had painted, with a greater depth than the one stored, and
\* has left the pixel as it was, while another pixel still holds the sentinel
C30_Witness ==
    /\ version = "zbuf" /\ pc = "render" /\ last.drew
    /\ ~Degenerate(Denom(LastScreen(1), LastScreen(2), LastScreen(3)))
    /\ \E p \in Pixels :
           /\ ~Written(last.writes, p)
           /\ Inside(LastLambda(p))
           /\ last.zBuffer[BufferIndex(p)] < MAX_VALUE
           /\ LastDepth(p) > last.zBuffer[BufferIndex(p)]
    /\ \E q \in Pixels : zBuffer[BufferIndex(q)] = MAX_VALUE

\* render has just split a quadrilateral into the two calls of the queue
QuadSplit ==
    /\ last.visited /\ last.drawn /\ Len(LastFace.vertexIndices) = 4 /\ Len(queue) = 2

\* the screen vertex k of the call c that waits in the queue
QueuedScreen(c, k) == ScreenV(transformedVertices, c, k)

\* the triangle of the call c has an area on the screen
HasArea(c) ==
    ~Degenerate(Denom(QueuedScreen(c, 1), QueuedScreen(c, 2), QueuedScreen(c, 3)))

\* the centre of the pixel p lies on the segment from a to b (half pixels)
OnSegment(a, b, p) ==
    /\ (b.x - a.x) * (2 * p[2] - a.y) = (b.y - a.y) * (2 * p[1] - a.x)
    /\ (b.x - a.x) * (2 * p[1] - a.x) + (b.y - a.y) * (2 * p[2] - a.y) >= 0
    /\ (a.x - b.x) * (2 * p[1] - b.x) + (a.y - b.y) * (2 * p[2] - b.y) >= 0

\* the inside test of drawTriangle accepts the pixel p for the call c
Accepts(c, p) ==
    /\ HasArea(c)
    /\ Inside(Lambda(QueuedScreen(c, 1), QueuedScreen(c, 2), QueuedScreen(c, 3),
                     p[1], p[2]))

(* On the half pixels of the model above, where every product of the inside *)
(* test is exact, a pixel centre on the diagonal of a split quadrilateral is *)
(* accepted by one of the two triangles.                                     *)
LatticeDiagonalAccepted ==
    QuadSplit /\ HasArea(queue[1]) /\ HasArea(queue[2]) =>
        /\ queue[1].i[1] = queue[2].i[1] /\ queue[1].i[3] = queue[2].i[2]
        /\ \A p \in Pixels :
               OnSegment(QueuedScreen(queue[1], 1), QueuedScreen(queue[1], 3), p) =>
                   Accepts(queue[1], p) \/ Accepts(queue[2], p)

\* the inside test has run for the two triangles of a quadrilateral
QuadTested == Len(last.calls) = 2

\* the centre of the pixel p lies between a and b on the segment from a to b
\* (coordinates counted in 1 / Quantum)
OnDiagonal(a, b, p) ==
    /\ (b.x - a.x) * (p[2] * Quantum - a.y) = (b.y - a.y) * (p[1] * Quantum - a.x)
    /\ (b.x - a.x) * (p[1] * Quantum - a.x) + (b.y - a.y) * (p[2] * Quantum - a.y) > 0
    /\ (a.x - b.x) * (p[1] * Quantum - b.x) + (a.y - b.y) * (p[2] * Quantum - b.y) > 0

(* C25: when a quadrilateral is split into the triangles on its corners     *)
(* (0, 1, 2) and (0, 2, 3), the two share the diagonal from corner 0 to     *)
(* corner 2, and every pixel centre that lies on that diagonal of the       *)
(* quadrilateral the face is mapped to, between the two corners, is         *)
(* accepted by the inside test of at least one of the two triangles.        *)
C25_NoGapAlongDiagonal ==
    QuadTested =>
        /\ last.calls[1].i[1] = last.calls[2].i[1]
        /\ last.calls[1].i[3] = last.calls[2].i[2]
        /\ \A p \in Pixels :
               OnDiagonal(ExactScreenV(last.calls[1], 1), ExactScreenV(last.calls[1], 3), p)
                   => p \in last.inside[1] \cup last.inside[2]

\* the colour the vertex k of the transformed vertices tv carries: its color
\* field in "zbuf", its entry of vertexColors in gouraud mode of the other two
CarriedColor(tv, k) ==
    IF version = "zbuf" THEN tv[k].color
    ELSE IF shadingMode = "gouraud" THEN vertexColors[k]
    ELSE RGB(0, 0, 0)

=============================================================================
